---- MODULE Spec2Model ----
(***************************************************************************)
(* Model of epochzone: the timezone service (src/src/service.rs), its HTTP *)
(* handlers (src/src/handlers.rs), the API-key middleware and store        *)
(* (src/src/auth/*.rs, src/src/db.rs) and the router (src/src/routes.rs).  *)
(*                                                                         *)
(* Representation choices                                                  *)
(*  - A text whose characters the code inspects (abbreviation, "%z"        *)
(*    output, datetime literal) is a sequence of one-character strings.    *)
(*  - An i64 count of seconds is the record [d, s] of its Euclidean        *)
(*    quotient and remainder by 86400 (value = 86400*d + s, 0 <= s <       *)
(*    86400); this is the decomposition chrono's from_timestamp performs   *)
(*    and it keeps every number inside TLC's integer range.                *)
(*  - chrono, chrono_tz and tzf_rs are libraries outside the repository;   *)
(*    they are modelled by what they compute on a pinned catalog.          *)
(***************************************************************************)
EXTENDS Integers, Sequences, FiniteSets, TLC

VARIABLES
    now,      \* the system clock, seconds since the epoch
    ticks,    \* how many times the clock has advanced
    call,     \* the direct call being made: function, argument, time of call
    svcRet,   \* what the service function returned to it
    httpRet,  \* what the handler answered
    db,       \* the api_keys table
    reqs,     \* the requests in flight through the router
    prev      \* an earlier direct call a caller has kept: call and result

vars == <<now, ticks, call, svcRet, httpRet, db, reqs, prev>>

----------------------------------------------------------------------------
(* Option and Result values                                                *)

None == [some |-> FALSE]

Some(x) == [some |-> TRUE, v |-> x]

Ok(x) == [ok |-> TRUE, val |-> x]

Err(m) == [ok |-> FALSE, err |-> m]

----------------------------------------------------------------------------
(* Seconds arithmetic on the [d, s] representation                         *)

SECS_PER_DAY == 86400

\* i64 seconds given as a small integer n
Ts(n) == [d |-> n \div SECS_PER_DAY, s |-> n % SECS_PER_DAY]

\* t + k seconds, k a small signed integer
AddSecs(t, k) ==
    LET total == t.s + k
    IN  [d |-> t.d + (total \div SECS_PER_DAY), s |-> total % SECS_PER_DAY]

\* t1 < t2
TsLess(t1, t2) == t1.d < t2.d \/ (t1.d = t2.d /\ t1.s < t2.s)

TsLeq(t1, t2) == t1 = t2 \/ TsLess(t1, t2)

----------------------------------------------------------------------------
(* Characters                                                              *)

Digits == <<"0", "1", "2", "3", "4", "5", "6", "7", "8", "9">>

Digit(n) == Digits[n + 1]

IsDigit(c) == \E i \in 1..10 : Digits[i] = c

DigitVal(c) == (CHOOSE i \in 1..10 : Digits[i] = c) - 1

Pad2(n) == <<Digit((n \div 10) % 10), Digit(n % 10)>>

Pad4(n) == <<Digit((n \div 1000) % 10), Digit((n \div 100) % 10)>> \o Pad2(n % 100)

----------------------------------------------------------------------------
(* The zone catalog (chrono_tz).  A pinned snapshot: eleven of the         *)
(* catalog's zones, in its order, each with the rule spans that cover the  *)
(* instants used here (1970, 2024 and 2025).  A span is chrono_tz's        *)
(* FixedTimespan {utc_offset, dst_offset, name} with the UTC instant at    *)
(* which it starts; the first span of a zone has no start.                 *)

Span(start, utc_offset, dst_offset, abbr) ==
    [start |-> start, utc_offset |-> utc_offset, dst_offset |-> dst_offset, abbr |-> abbr]

Fixed(utc_offset, abbr) == <<Span(None, utc_offset, 0, abbr)>>

\* a zone with European-Union style summer time in 2025
EuRules(std, stdAbbr, dstAbbr) ==
    << Span(None, std, 0, stdAbbr),
       Span(Some([d |-> 20177, s |-> 3600]), std, 3600, dstAbbr),
       Span(Some([d |-> 20387, s |-> 3600]), std, 0, stdAbbr) >>

TZ_VARIANTS ==
    << [name |-> "America/New_York",
        spans |-> << Span(None, -18000, 0, <<"E", "S", "T">>),
                     Span(Some([d |-> 20156, s |-> 25200]), -18000, 3600, <<"E", "D", "T">>),
                     Span(Some([d |-> 20394, s |-> 21600]), -18000, 0, <<"E", "S", "T">>) >>],
       [name |-> "America/Port_of_Spain", spans |-> Fixed(-14400, <<"A", "S", "T">>)],
       [name |-> "America/Sao_Paulo", spans |-> Fixed(-10800, <<"-", "0", "3">>)],
       [name |-> "Asia/Dubai",        spans |-> Fixed(14400, <<"+", "0", "4">>)],
       [name |-> "Asia/Kolkata",      spans |-> Fixed(19800, <<"I", "S", "T">>)],
       [name |-> "Asia/Tokyo",        spans |-> Fixed(32400, <<"J", "S", "T">>)],
       [name |-> "Etc/GMT+11",        spans |-> Fixed(-39600, <<"-", "1", "1">>)],
       [name |-> "Europe/Belgrade",
        spans |-> EuRules(3600, <<"C", "E", "T">>, <<"C", "E", "S", "T">>)],
       [name |-> "Europe/London",
        spans |-> EuRules(0, <<"G", "M", "T">>, <<"B", "S", "T">>)],
       [name |-> "Pacific/Marquesas",
        spans |-> Fixed(-34200, <<"-", "0", "9", "3", "0">>)],
       [name |-> "UTC",               spans |-> Fixed(0, <<"U", "T", "C">>)] >>

\* a Tz value is a variant of the enum: an index into TZ_VARIANTS
Tz == 1..Len(TZ_VARIANTS)

\* Tz::name
tz_name(tz) == TZ_VARIANTS[tz].name

\* chrono_tz::UTC
UTC == CHOOSE tz \in Tz : tz_name(tz) = "UTC"

\* ASCII case folding of the zone strings used as inputs
Fold(str) ==
    CASE str = "utc" -> "UTC"
      [] str = "america/new_york" -> "America/New_York"
      [] OTHER -> str

\* <Tz as FromStr>::from_str with the "case-insensitive" feature on; not what
\* the build uses
parse_tz_insensitive(str) ==
    IF \E tz \in Tz : Fold(tz_name(tz)) = Fold(str)
    THEN Ok(CHOOSE tz \in Tz : Fold(tz_name(tz)) = Fold(str))
    ELSE Err("UnknownTimezone")

\* <Tz as FromStr>::from_str: exact lookup of the string among the names
parse_tz(str) ==
    IF \E tz \in Tz : tz_name(tz) = str
    THEN Ok(CHOOSE tz \in Tz : tz_name(tz) = str)
    ELSE Err("UnknownTimezone")

\* index of the span of zone tz in force at UTC instant t
SpanAt(tz, t) ==
    LET sp == TZ_VARIANTS[tz].spans
    IN  CHOOSE i \in 1..Len(sp) :
            /\ (sp[i].start.some => TsLeq(sp[i].start.v, t))
            /\ (i < Len(sp) => TsLess(t, sp[i + 1].start.v))

\* TzOffset: the span in force, as returned by offset_from_utc_datetime
offset_from_utc_datetime(tz, t) == TZ_VARIANTS[tz].spans[SpanAt(tz, t)]

\* total offset from UTC, in seconds (TzOffset::fix)
TotalOffset(off) == off.utc_offset + off.dst_offset

\* indices of the spans of tz whose local-time interval contains the naive
\* local time n (chrono_tz binary-searches local_span(i); the effect is the
\* set of spans i with start_i + off_i <= n < start_{i+1} + off_i)
LocalCandidates(tz, n) ==
    LET sp == TZ_VARIANTS[tz].spans
    IN  { i \in 1..Len(sp) :
            /\ (sp[i].start.some => TsLeq(AddSecs(sp[i].start.v, TotalOffset(sp[i])), n))
            /\ (i < Len(sp) => TsLess(n, AddSecs(sp[i + 1].start.v, TotalOffset(sp[i])))) }

\* TimeZone::from_local_datetime followed by LocalResult::earliest: in an
\* overlap the earlier of the two instants
from_local_datetime_earliest(tz, n) ==
    LET c == LocalCandidates(tz, n)
    IN  IF c # {}
        THEN Some(AddSecs(n, 0 - TotalOffset(TZ_VARIANTS[tz].spans[
                                   CHOOSE i \in c : \A j \in c : i <= j])))
        ELSE None

\* TimeZone::from_local_datetime followed by LocalResult::single: the UTC
\* instant when exactly one span maps to n, None in a gap (no span) and in
\* an overlap (two spans)
from_local_datetime_single(tz, n) ==
    LET c == LocalCandidates(tz, n)
    IN  IF Cardinality(c) = 1
        THEN Some(AddSecs(n, 0 - TotalOffset(TZ_VARIANTS[tz].spans[CHOOSE i \in c : TRUE])))
        ELSE None

----------------------------------------------------------------------------
(* chrono: calendar, DateTime<Utc>, formatting                             *)

\* days since 1970-01-01 of the proleptic Gregorian date y-m-d
days_from_civil(y, m, d) ==
    LET y1  == IF m <= 2 THEN y - 1 ELSE y
        era == y1 \div 400
        yoe == y1 - era * 400
        doy == ((153 * (IF m > 2 THEN m - 3 ELSE m + 9) + 2) \div 5) + d - 1
        doe == yoe * 365 + (yoe \div 4) - (yoe \div 100) + doy
    IN  era * 146097 + doe - 719468

\* the date [y, m, d] of day z since 1970-01-01
civil_from_days(z) ==
    LET z1  == z + 719468
        era == z1 \div 146097
        doe == z1 - era * 146097
        yoe == (doe - (doe \div 1460) + (doe \div 36524) - (doe \div 146096)) \div 365
        doy == doe - (365 * yoe + (yoe \div 4) - (yoe \div 100))
        mp  == (5 * doy + 2) \div 153
        m   == IF mp < 10 THEN mp + 3 ELSE mp - 9
    IN  [y |-> yoe + era * 400 + (IF m <= 2 THEN 1 ELSE 0),
         m |-> m,
         d |-> doy - ((153 * mp + 2) \div 5) + 1]

DaysInMonth(y, m) ==
    IF m = 2
    THEN (IF (y % 4 = 0 /\ y % 100 # 0) \/ y % 400 = 0 THEN 29 ELSE 28)
    ELSE (IF m \in {4, 6, 9, 11} THEN 30 ELSE 31)

\* day number (from 0001-01-01 = 1) of 1970-01-01
UNIX_EPOCH_DAY == 719163

\* NaiveDate::MIN and NaiveDate::MAX as day numbers (years -262143, 262142)
MIN_DATE_DAYS == -95746129

MAX_DATE_DAYS == 95745399

I32_MIN == -2147483647 - 1

I32_MAX == 2147483647

\* from_timestamp saturating at the first and last representable instant
from_timestamp_clamped(ts) ==
    LET days == ts.d + UNIX_EPOCH_DAY
    IN  IF days < MIN_DATE_DAYS THEN Some([date |-> MIN_DATE_DAYS, secs |-> 0])
        ELSE IF days > MAX_DATE_DAYS THEN Some([date |-> MAX_DATE_DAYS, secs |-> SECS_PER_DAY - 1])
        ELSE Some([date |-> days, secs |-> ts.s])

\* DateTime::<Utc>::from_timestamp(secs, 0): the date is days-from-CE, which
\* must fit an i32 and lie in NaiveDate's range
from_timestamp(ts) ==
    LET days == ts.d + UNIX_EPOCH_DAY
    IN  IF days < I32_MIN \/ days > I32_MAX THEN None
        ELSE IF days < MIN_DATE_DAYS \/ days > MAX_DATE_DAYS THEN None
        ELSE Some([date |-> days, secs |-> ts.s])

\* DateTime::timestamp
timestamp(dt) == [d |-> dt.date - UNIX_EPOCH_DAY, s |-> dt.secs]

\* NaiveDateTime -> DateTime<Utc> for a naive value given as seconds
and_utc(n) == [date |-> n.d + UNIX_EPOCH_DAY, secs |-> n.s]

\* DateTime<Utc>::with_timezone(&tz): the same instant with the zone's offset
with_timezone(utc, tz) ==
    [utc |-> utc, tz |-> tz, offset |-> offset_from_utc_datetime(tz, timestamp(utc))]

\* the offset in minutes, rounded to the nearest minute, as "%z" and RFC 3339
\* print it
OffsetMinutes(off) ==
    LET t == TotalOffset(off) IN ((IF t < 0 THEN 0 - t ELSE t) + 30) \div 60

OffsetSign(off) == IF TotalOffset(off) < 0 THEN "-" ELSE "+"

\* "%z" with hours and minutes taken by floored division of the signed
\* offset
format_z_floor(local) ==
    LET m == TotalOffset(local.offset) \div 60
        h == m \div 60
    IN  <<OffsetSign(local.offset)>> \o Pad2(IF h < 0 THEN 0 - h ELSE h) \o Pad2(m % 60)

\* local.format("%z"): sign, two hour digits, two minute digits
format_z(local) ==
    <<OffsetSign(local.offset)>>
        \o Pad2(OffsetMinutes(local.offset) \div 60)
        \o Pad2(OffsetMinutes(local.offset) % 60)

\* local.format("%Z"): the span's abbreviation
format_Z(local) == local.offset.abbr

\* the decimal digits of n >= 0
RECURSIVE Decimal(_)
Decimal(n) == IF n < 10 THEN <<Digit(n)>> ELSE Decimal(n \div 10) \o <<Digit(n % 10)>>

\* the year of an RFC 3339 date: four digits for 0..9999, else a sign and at
\* least four digits
FormatYear(y) ==
    IF y >= 0 /\ y <= 9999 THEN Pad4(y)
    ELSE LET a == IF y < 0 THEN 0 - y ELSE y
         IN  <<IF y < 0 THEN "-" ELSE "+">> \o (IF a <= 9999 THEN Pad4(a) ELSE Decimal(a))

\* DateTime<Tz>::to_rfc3339: local date and time, then +hh:mm
to_rfc3339(local) ==
    LET n   == AddSecs(timestamp(local.utc), TotalOffset(local.offset))
        ymd == civil_from_days(n.d)
    IN  FormatYear(ymd.y) \o <<"-">> \o Pad2(ymd.m) \o <<"-">> \o Pad2(ymd.d) \o <<"T">>
        \o Pad2(n.s \div 3600) \o <<":">> \o Pad2((n.s \div 60) % 60) \o <<":">> \o Pad2(n.s % 60)
        \o <<OffsetSign(local.offset)>>
        \o Pad2(OffsetMinutes(local.offset) \div 60) \o <<":">>
        \o Pad2(OffsetMinutes(local.offset) % 60)

----------------------------------------------------------------------------
(* chrono: NaiveDateTime::parse_from_str                                   *)

Num(field, width, signed) ==
    [kind |-> "num", field |-> field, width |-> width, signed |-> signed, ch |-> ""]

Lit(ch) == [kind |-> "lit", field |-> "", width |-> 0, signed |-> FALSE, ch |-> ch]

\* the items of "%Y-%m-%dT%H:%M"
FMT_YMD_HM ==
    << Num("year", 4, TRUE), Lit("-"), Num("month", 2, FALSE), Lit("-"), Num("day", 2, FALSE),
       Lit("T"), Num("hour", 2, FALSE), Lit(":"), Num("minute", 2, FALSE) >>

\* the items of "%Y-%m-%dT%H:%M:%S"
FMT_YMD_HMS == FMT_YMD_HM \o << Lit(":"), Num("second", 2, FALSE) >>

RECURSIVE TrimStart(_)
TrimStart(str) ==
    IF str # <<>> /\ Head(str) = " " THEN TrimStart(Tail(str)) ELSE str

\* number of leading digits of str, at most max
RECURSIVE CountDigits(_, _)
CountDigits(str, max) ==
    IF max = 0 \/ str = <<>> THEN 0
    ELSE IF ~IsDigit(Head(str)) THEN 0
    ELSE 1 + CountDigits(Tail(str), max - 1)

\* value of the first k characters of str, all digits
RECURSIVE DigitsValue(_, _, _)
DigitsValue(str, k, acc) ==
    IF k = 0 THEN acc ELSE DigitsValue(Tail(str), k - 1, acc * 10 + DigitVal(Head(str)))

\* range a field must lie in when it is set (Parsed::set_*)
FieldInRange(field, v) ==
    CASE field = "month"  -> v \in 1..12
      [] field = "day"    -> v \in 1..31
      [] field = "hour"   -> v \in 0..23
      [] field = "minute" -> v \in 0..59
      [] field = "second" -> v \in 0..60
      [] OTHER -> TRUE

NoFields ==
    [year |-> None, month |-> None, day |-> None, hour |-> None, minute |-> None, second |-> None]

\* format::parse: consume str item by item.  A numeric item skips leading
\* white space, takes an explicit sign and any number of digits for a signed
\* field, else 1..width digits; a literal must match exactly; input left
\* over at the end is an error.
RECURSIVE ParseItems(_, _, _)
ParseItems(items, str, acc) ==
    IF items = <<>>
    THEN (IF str = <<>> THEN Ok(acc) ELSE Err("trailing input"))
    ELSE LET it == Head(items)
         IN  IF it.kind = "lit"
             THEN (IF str = <<>> THEN Err("premature end of input")
                   ELSE IF Head(str) # it.ch THEN Err("input contains invalid characters")
                   ELSE ParseItems(Tail(items), Tail(str), acc))
             ELSE LET t      == TrimStart(str)
                      sign   == IF it.signed /\ t # <<>> /\ Head(t) \in {"+", "-"}
                                THEN Head(t) ELSE ""
                      body   == IF sign = "" THEN t ELSE Tail(t)
                      k      == CountDigits(body, IF sign = "" THEN it.width ELSE Len(body))
                      v      == DigitsValue(body, k, 0)
                      value  == IF sign = "-" THEN 0 - v ELSE v
                  IN  IF body = <<>> THEN Err("premature end of input")
                      ELSE IF k = 0 THEN Err("input contains invalid characters")
                      ELSE IF ~FieldInRange(it.field, value) THEN Err("input is out of range")
                      ELSE ParseItems(Tail(items), SubSeq(body, k + 1, Len(body)),
                                      [acc EXCEPT ![it.field] = Some(value)])

\* Parsed::to_naive_datetime_with_offset(0): the date must exist; a missing
\* second is 0; second 60 is the leap second of second 59
to_naive_datetime(p) ==
    IF p.year.v < -262143 \/ p.year.v > 262142 \/ p.day.v > DaysInMonth(p.year.v, p.month.v)
    THEN Err("input is out of range")
    ELSE LET sec == IF p.second.some THEN (IF p.second.v = 60 THEN 59 ELSE p.second.v) ELSE 0
         IN  Ok([d |-> days_from_civil(p.year.v, p.month.v, p.day.v),
                 s |-> p.hour.v * 3600 + p.minute.v * 60 + sec])

\* NaiveDateTime::parse_from_str(str, fmt)
parse_from_str(str, fmt) ==
    LET resolve(r) == IF r.ok THEN to_naive_datetime(r.val) ELSE r
    IN  resolve(ParseItems(fmt, str, NoFields))

----------------------------------------------------------------------------
(* src/src/service.rs: EpochZoneService                                    *)

\* an error message: the fixed text of the format string and the values
\* interpolated into it
Msg(text, args) == [text |-> text, args |-> args]

\* the characters of a zone string (of the catalog's names and of the other
\* zone strings used as inputs; the empty string has none)
Chars(str) ==
    CASE str = "America/New_York" ->
           <<"A", "m", "e", "r", "i", "c", "a", "/", "N", "e", "w", "_", "Y", "o", "r", "k">>
      [] str = "America/Port_of_Spain" ->
           <<"A", "m", "e", "r", "i", "c", "a", "/", "P", "o", "r", "t", "_", "o", "f", "_",
             "S", "p", "a", "i", "n">>
      [] str = "America/Sao_Paulo" ->
           <<"A", "m", "e", "r", "i", "c", "a", "/", "S", "a", "o", "_", "P", "a", "u", "l", "o">>
      [] str = "Asia/Dubai" ->
           <<"A", "s", "i", "a", "/", "D", "u", "b", "a", "i">>
      [] str = "Asia/Kolkata" ->
           <<"A", "s", "i", "a", "/", "K", "o", "l", "k", "a", "t", "a">>
      [] str = "Asia/Tokyo" ->
           <<"A", "s", "i", "a", "/", "T", "o", "k", "y", "o">>
      [] str = "Etc/GMT+11" ->
           <<"E", "t", "c", "/", "G", "M", "T", "+", "1", "1">>
      [] str = "Europe/Belgrade" ->
           <<"E", "u", "r", "o", "p", "e", "/", "B", "e", "l", "g", "r", "a", "d", "e">>
      [] str = "Europe/London" ->
           <<"E", "u", "r", "o", "p", "e", "/", "L", "o", "n", "d", "o", "n">>
      [] str = "Pacific/Marquesas" ->
           <<"P", "a", "c", "i", "f", "i", "c", "/", "M", "a", "r", "q", "u", "e", "s", "a", "s">>
      [] str = "UTC" ->
           <<"U", "T", "C">>
      [] str = "Invalid/Zone" ->
           <<"I", "n", "v", "a", "l", "i", "d", "/", "Z", "o", "n", "e">>
      [] str = "utc" ->
           <<"u", "t", "c">>
      [] str = "america/new_york" ->
           <<"a", "m", "e", "r", "i", "c", "a", "/", "n", "e", "w", "_", "y", "o", "r", "k">>
      [] str = "America" ->
           <<"A", "m", "e", "r", "i", "c", "a">>
      [] OTHER -> <<>>

\* str::replacen('_', " ", 1): only the first underscore is replaced
replace_underscore_first(cs) ==
    [i \in 1..Len(cs) |->
        IF cs[i] = "_" /\ (\A j \in 1..(i - 1) : cs[j] # "_") THEN " " ELSE cs[i]]

\* str::replace('_', " ") on a character sequence
replace_underscore(cs) == [i \in 1..Len(cs) |-> IF cs[i] = "_" THEN " " ELSE cs[i]]

\* format_abbreviation with the test on the leading character left out
format_abbreviation_raw(local) == format_Z(local)

\* format_abbreviation: "N/A" when "%Z" begins with '+' or '-'
format_abbreviation(local) ==
    LET abbr == format_Z(local)
    IN  IF abbr # <<>> /\ (Head(abbr) = "+" \/ Head(abbr) = "-")
        THEN <<"N", "/", "A">>
        ELSE abbr

\* is_daylight_saving_time testing the base offset (base_utc_offset) in
\* place of the DST component
is_daylight_saving_time_base(tz, utc_now) ==
    with_timezone(utc_now, tz).offset.utc_offset # 0

\* is_daylight_saving_time: the DST component of the offset is non-zero
is_daylight_saving_time(tz, utc_now) ==
    with_timezone(utc_now, tz).offset.dst_offset # 0

\* the text shown when "%z" is shorter than five characters
UTC_ZERO == <<"U", "T", "C", "+", "0", "0", ":", "0", "0">>

\* get_timezone_info rendering current_time from the UTC reading in place of
\* the zone's
get_timezone_info_utc_time(timezone_name, utc_now) ==
    LET p == parse_tz(timezone_name)
    IN  IF ~p.ok THEN Err(Msg("Invalid timezone: {}", <<timezone_name>>))
        ELSE LET tz         == p.val
                 local_time == with_timezone(utc_now, tz)
                 offset_str == format_z(local_time)
                 offset_string ==
                     IF Len(offset_str) >= 5
                     THEN <<"U", "T", "C">> \o SubSeq(offset_str, 1, 1)
                          \o SubSeq(offset_str, 2, 3) \o <<":">> \o SubSeq(offset_str, 4, 5)
                     ELSE UTC_ZERO
             IN  Ok([timezone     |-> timezone_name,
                     current_time |-> to_rfc3339(with_timezone(utc_now, UTC)),
                     utc_offset   |-> offset_string,
                     abbreviation |-> format_abbreviation(local_time),
                     is_dst       |-> is_daylight_saving_time(tz, utc_now),
                     timestamp    |-> timestamp(utc_now)])

\* get_timezone_info, with utc_now the value Utc::now() returned
get_timezone_info(timezone_name, utc_now) ==
    LET p == parse_tz(timezone_name)
    IN  IF ~p.ok THEN Err(Msg("Invalid timezone: {}", <<timezone_name>>))
        ELSE LET tz         == p.val
                 local_time == with_timezone(utc_now, tz)
                 offset_str == format_z(local_time)
                 offset_string ==
                     IF Len(offset_str) >= 5
                     THEN <<"U", "T", "C">> \o SubSeq(offset_str, 1, 1)
                          \o SubSeq(offset_str, 2, 3) \o <<":">> \o SubSeq(offset_str, 4, 5)
                     ELSE UTC_ZERO
             IN  Ok([timezone     |-> timezone_name,
                     current_time |-> to_rfc3339(local_time),
                     utc_offset   |-> offset_string,
                     abbreviation |-> format_abbreviation(local_time),
                     is_dst       |-> is_daylight_saving_time(tz, utc_now),
                     timestamp    |-> timestamp(utc_now)])

\* get_all_timezones: one item per variant, in the variants' order
get_all_timezones ==
    [i \in 1..Len(TZ_VARIANTS) |->
        [name         |-> Chars(tz_name(i)),
         display_name |-> replace_underscore(Chars(tz_name(i)))]]

\* is_valid_timezone
is_valid_timezone(timezone_name) == parse_tz(timezone_name).ok

\* build_convert_info taking the timestamp from the local clock reading
build_convert_info_local_timestamp(utc, tz) ==
    LET local      == with_timezone(utc, tz)
        offset_str == format_z(local)
        utc_offset ==
            IF Len(offset_str) >= 5
            THEN <<"U", "T", "C">> \o SubSeq(offset_str, 1, 1)
                 \o SubSeq(offset_str, 2, 3) \o <<":">> \o SubSeq(offset_str, 4, 5)
            ELSE UTC_ZERO
    IN  [timezone     |-> tz_name(tz),
         datetime     |-> to_rfc3339(local),
         utc_offset   |-> utc_offset,
         abbreviation |-> format_abbreviation(local),
         is_dst       |-> is_daylight_saving_time(tz, utc),
         timestamp    |-> AddSecs(timestamp(utc), TotalOffset(local.offset))]

\* build_convert_info asking is_daylight_saving_time about the clock's
\* instant, as get_timezone_info does, in place of the converted instant
build_convert_info_dst_now(utc, tz) ==
    LET local      == with_timezone(utc, tz)
        offset_str == format_z(local)
        utc_offset ==
            IF Len(offset_str) >= 5
            THEN <<"U", "T", "C">> \o SubSeq(offset_str, 1, 1)
                 \o SubSeq(offset_str, 2, 3) \o <<":">> \o SubSeq(offset_str, 4, 5)
            ELSE UTC_ZERO
    IN  [timezone     |-> tz_name(tz),
         datetime     |-> to_rfc3339(local),
         utc_offset   |-> utc_offset,
         abbreviation |-> format_abbreviation(local),
         is_dst       |-> is_daylight_saving_time(tz, and_utc(now)),
         timestamp    |-> timestamp(utc)]

\* build_convert_info
build_convert_info(utc, tz) ==
    LET local      == with_timezone(utc, tz)
        offset_str == format_z(local)
        utc_offset ==
            IF Len(offset_str) >= 5
            THEN <<"U", "T", "C">> \o SubSeq(offset_str, 1, 1)
                 \o SubSeq(offset_str, 2, 3) \o <<":">> \o SubSeq(offset_str, 4, 5)
            ELSE UTC_ZERO
    IN  [timezone     |-> tz_name(tz),
         datetime     |-> to_rfc3339(local),
         utc_offset   |-> utc_offset,
         abbreviation |-> format_abbreviation(local),
         is_dst       |-> is_daylight_saving_time(tz, utc),
         timestamp    |-> timestamp(utc)]

\* parse_from_str with "%Y-%m-%dT%H:%M:%S" and no second attempt
parse_naive_hms_only(dt_str) == parse_from_str(dt_str, FMT_YMD_HMS)

\* parse_from_str with "%Y-%m-%dT%H:%M:%S", or else with "%Y-%m-%dT%H:%M"
parse_naive(dt_str) ==
    LET or_else(first) == IF first.ok THEN first ELSE parse_from_str(dt_str, FMT_YMD_HM)
    IN  or_else(parse_from_str(dt_str, FMT_YMD_HMS))

\* the datetime arm taking the literal as a UTC reading (naive.and_utc())
\* whatever the source zone is
convert_datetime_arm_naive_utc(dt_str, from_str) ==
    LET parsed(source_tz, naive) ==
            IF ~naive.ok
            THEN Err(Msg("Invalid datetime '{}': {}", <<dt_str, naive.err>>))
            ELSE Ok([utc_instant |-> and_utc(naive.val), from_tz |-> source_tz])
        source(f) ==
            IF ~f.ok THEN Err(Msg("Invalid source timezone: {}", <<from_str>>))
            ELSE parsed(f.val, parse_naive(dt_str))
    IN  source(parse_tz(from_str))

\* the datetime arm parsing the literal before the source zone
convert_datetime_arm_literal_first(dt_str, from_str) ==
    LET single(source_tz, local) ==
            IF ~local.some
            THEN Err(Msg("Ambiguous or invalid local time '{}' in {}", <<dt_str, from_str>>))
            ELSE Ok([utc_instant |-> and_utc(local.v), from_tz |-> source_tz])
        source(f, naive) ==
            IF ~f.ok THEN Err(Msg("Invalid source timezone: {}", <<from_str>>))
            ELSE single(f.val, from_local_datetime_single(f.val, naive.val))
        parsed(naive) ==
            IF ~naive.ok
            THEN Err(Msg("Invalid datetime '{}': {}", <<dt_str, naive.err>>))
            ELSE source(parse_tz(from_str), naive)
    IN  parsed(parse_naive(dt_str))

\* the datetime arm of convert_timezone's match: source zone, then the
\* literal in its two forms, then the single-instant test
convert_datetime_arm(dt_str, from_str) ==
    LET single(source_tz, local) ==
            IF ~local.some
            THEN Err(Msg("Ambiguous or invalid local time '{}' in {}", <<dt_str, from_str>>))
            ELSE Ok([utc_instant |-> and_utc(local.v), from_tz |-> source_tz])
        parsed(source_tz, naive) ==
            IF ~naive.ok
            THEN Err(Msg("Invalid datetime '{}': {}", <<dt_str, naive.err>>))
            ELSE single(source_tz, from_local_datetime_single(source_tz, naive.val))
        source(f) ==
            IF ~f.ok THEN Err(Msg("Invalid source timezone: {}", <<from_str>>))
            ELSE parsed(f.val, parse_naive(dt_str))
    IN  source(parse_tz(from_str))

\* the match of convert_timezone with a first arm of (Some(_), Some(_), _)
\* only: a timestamp sent with a source zone is taken as a timestamp
convert_instant_lax(request) ==
    IF request.timestamp.some /\ request.datetime.some
    THEN Err(Msg("Provide either 'timestamp' or 'datetime'+'from', not both", <<>>))
    ELSE IF request.timestamp.some
    THEN LET ok_or(utc) ==
                 IF ~utc.some THEN Err(Msg("Invalid timestamp: {}", <<request.timestamp.v>>))
                 ELSE Ok([utc_instant |-> utc.v, from_tz |-> UTC])
         IN  ok_or(from_timestamp(request.timestamp.v))
    ELSE IF request.datetime.some /\ request.from.some
    THEN convert_datetime_arm(request.datetime.v, request.from.v)
    ELSE IF ~request.datetime.some
    THEN Err(Msg("Either 'timestamp' or 'datetime'+'from' is required", <<>>))
    ELSE Err(Msg("'from' timezone is required when using 'datetime'", <<>>))

\* the match of convert_timezone on (timestamp, datetime, from), arms in the
\* order of the source
convert_instant(request) ==
    IF request.timestamp.some /\ (request.datetime.some \/ request.from.some)
    THEN Err(Msg("Provide either 'timestamp' or 'datetime'+'from', not both", <<>>))
    ELSE IF request.timestamp.some
    THEN LET ok_or(utc) ==
                 IF ~utc.some THEN Err(Msg("Invalid timestamp: {}", <<request.timestamp.v>>))
                 ELSE Ok([utc_instant |-> utc.v, from_tz |-> UTC])
         IN  ok_or(from_timestamp(request.timestamp.v))
    ELSE IF request.datetime.some /\ request.from.some
    THEN convert_datetime_arm(request.datetime.v, request.from.v)
    ELSE IF ~request.datetime.some
    THEN Err(Msg("Either 'timestamp' or 'datetime'+'from' is required", <<>>))
    ELSE Err(Msg("'from' timezone is required when using 'datetime'", <<>>))

\* convert_timezone with the instant determined before the target zone is
\* parsed
convert_timezone_instant_first(request) ==
    LET render(m, t) ==
            IF ~m.ok THEN m
            ELSE IF ~t.ok THEN Err(Msg("Invalid target timezone: {}", <<request.to>>))
            ELSE Ok([from |-> build_convert_info(m.val.utc_instant, m.val.from_tz),
                     to   |-> build_convert_info(m.val.utc_instant, t.val)])
    IN  render(convert_instant(request), parse_tz(request.to))

\* convert_timezone rendering both sides against the target zone
convert_timezone_same_zone(request) ==
    LET render(m, target_tz) ==
            IF ~m.ok THEN m
            ELSE Ok([from |-> build_convert_info(m.val.utc_instant, target_tz),
                     to   |-> build_convert_info(m.val.utc_instant, target_tz)])
        target(t) ==
            IF ~t.ok THEN Err(Msg("Invalid target timezone: {}", <<request.to>>))
            ELSE render(convert_instant(request), t.val)
    IN  target(parse_tz(request.to))

\* convert_timezone: target zone first, then the instant and source zone,
\* then the two renderings of the same instant
convert_timezone(request) ==
    LET render(m, target_tz) ==
            IF ~m.ok THEN m
            ELSE Ok([from |-> build_convert_info(m.val.utc_instant, m.val.from_tz),
                     to   |-> build_convert_info(m.val.utc_instant, target_tz)])
        target(t) ==
            IF ~t.ok THEN Err(Msg("Invalid target timezone: {}", <<request.to>>))
            ELSE render(convert_instant(request), t.val)
    IN  target(parse_tz(request.to))

\* tzf_rs::DefaultFinder::get_tz_name(lng, lat), coordinates in 1/10000
\* degree: the zone whose polygon holds the point, the empty string when no
\* polygon does
get_tz_name(lng, lat) ==
    CASE lng = 1396503 /\ lat = 356762  -> "Asia/Tokyo"
      [] lng = -740060 /\ lat = 407128  -> "America/New_York"
      [] lng = -1278 /\ lat = 515074    -> "Europe/London"
      [] lng = -1600000 /\ lat = 0      -> "Etc/GMT+11"
      [] OTHER -> ""

\* get_timezone_by_coordinates with the two arguments of the finder exchanged
get_timezone_by_coordinates_swapped(lat, lng, utc_now) ==
    get_timezone_info(get_tz_name(lat, lng), utc_now)

\* get_timezone_by_coordinates
get_timezone_by_coordinates(lat, lng, utc_now) ==
    get_timezone_info(get_tz_name(lng, lat), utc_now)

----------------------------------------------------------------------------
(* src/src/handlers.rs                                                     *)

\* http::StatusCode
OK_200 == 200

CREATED == 201

NO_CONTENT == 204

BAD_REQUEST == 400

UNAUTHORIZED == 401

FORBIDDEN == 403

NOT_FOUND == 404

INTERNAL_SERVER_ERROR == 500

\* Result<Json<T>, (StatusCode, Json<ErrorResponse>)> as a response
JsonOk(val) == [status |-> OK_200, ok |-> TRUE, body |-> val]

JsonErr(status, msg) == [status |-> status, ok |-> FALSE, body |-> [error |-> msg]]

\* handlers::get_timezone_info
handlers_get_timezone_info(timezone_name, utc_now) ==
    LET respond(r) == IF r.ok THEN JsonOk(r.val) ELSE JsonErr(BAD_REQUEST, r.err)
    IN  respond(get_timezone_info(timezone_name, utc_now))

\* handlers::get_timezones
handlers_get_timezones == JsonOk(get_all_timezones)

\* handlers::convert_timezone
handlers_convert_timezone(payload) ==
    LET respond(r) == IF r.ok THEN JsonOk(r.val) ELSE JsonErr(BAD_REQUEST, r.err)
    IN  respond(convert_timezone(payload))

\* handlers::get_timezone_by_coordinates answering a failed lookup with 500
handlers_get_timezone_by_coordinates_500(params, utc_now) ==
    IF ~params.ok THEN JsonErr(BAD_REQUEST, Msg(params.err, <<>>))
    ELSE LET respond(r) == IF r.ok THEN JsonOk(r.val) ELSE JsonErr(INTERNAL_SERVER_ERROR, r.err)
         IN  respond(get_timezone_by_coordinates(params.val.lat, params.val.lng, utc_now))

\* handlers::get_timezone_by_coordinates; params is the extractor's result,
\* a rejection text or the two numbers
handlers_get_timezone_by_coordinates(params, utc_now) ==
    IF ~params.ok THEN JsonErr(BAD_REQUEST, Msg(params.err, <<>>))
    ELSE LET respond(r) == IF r.ok THEN JsonOk(r.val) ELSE JsonErr(BAD_REQUEST, r.err)
         IN  respond(get_timezone_by_coordinates(params.val.lat, params.val.lng, utc_now))

----------------------------------------------------------------------------
(* src/src/db.rs and src/src/auth/service.rs: the api_keys table           *)

\* character codes, for SQLite's binary comparison of TEXT values
CharCode(c) ==
    CASE c = " " -> 32
      [] c = "-" -> 45
      [] c = ":" -> 58
      [] c = "T" -> 84
      [] c = "Z" -> 90
      [] OTHER -> 48 + DigitVal(c)

\* a < b for TEXT values
RECURSIVE TextLess(_, _)
TextLess(a, b) ==
    IF b = <<>> THEN FALSE
    ELSE IF a = <<>> THEN TRUE
    ELSE IF Head(a) # Head(b) THEN CharCode(Head(a)) < CharCode(Head(b))
    ELSE TextLess(Tail(a), Tail(b))

\* SQLite's datetime('now'): "YYYY-MM-DD HH:MM:SS" in UTC
datetime_now(t) ==
    LET ymd == civil_from_days(t.d)
    IN  Pad4(ymd.y) \o <<"-">> \o Pad2(ymd.m) \o <<"-">> \o Pad2(ymd.d) \o <<" ">>
        \o Pad2(t.s \div 3600) \o <<":">> \o Pad2((t.s \div 60) % 60) \o <<":">> \o Pad2(t.s % 60)

\* hash_api_key: SHA-256 in hex, a one-to-one image of the key
hash_api_key(key) == <<"sha256", key>>

\* the table is the sequence of its rows in insertion order
RowIds(table) == { table[i].id : i \in 1..Len(table) }

RowHashes(table) == { table[i].key_hash : i \in 1..Len(table) }

\* create_api_key, with raw_key and id the values the two Uuid::new_v4 calls
\* produced: INSERT (refused when the id or the hash is already there), then
\* SELECT created_at.  The result is [db, ret].
create_api_key(table, name, expires_at, raw_key, id, t) ==
    LET key_hash == hash_api_key(raw_key)
    IN  IF id \in RowIds(table) \/ key_hash \in RowHashes(table)
        THEN [db |-> table, ret |-> Err(Msg("Failed to create API key: {}", <<"constraint">>))]
        ELSE [db  |-> Append(table, [id |-> id, key_hash |-> key_hash, name |-> name,
                                     created_at |-> datetime_now(t), is_active |-> 1,
                                     expires_at |-> expires_at]),
              ret |-> Ok([id |-> id, name |-> name, api_key |-> raw_key,
                          created_at |-> datetime_now(t), expires_at |-> expires_at])]

\* rows by created_at descending, rows of equal created_at in insertion order
RECURSIVE OrderByCreatedDesc(_)
OrderByCreatedDesc(table) ==
    IF table = <<>> THEN <<>>
    ELSE LET i == CHOOSE i \in 1..Len(table) :
                     /\ \A j \in 1..Len(table) : ~TextLess(table[i].created_at, table[j].created_at)
                     /\ \A j \in 1..(i - 1) : TextLess(table[j].created_at, table[i].created_at)
         IN  <<table[i]>> \o OrderByCreatedDesc(SubSeq(table, 1, i - 1) \o SubSeq(table, i + 1, Len(table)))

\* list_api_keys
list_api_keys(table) ==
    LET rows == OrderByCreatedDesc(table)
    IN  Ok([i \in 1..Len(rows) |->
              [id |-> rows[i].id, name |-> rows[i].name, created_at |-> rows[i].created_at,
               is_active |-> (rows[i].is_active = 1), expires_at |-> rows[i].expires_at]])

\* revoke_api_key with the WHERE clause left out of the UPDATE: every row is
\* deactivated
revoke_api_key_all(table, id) ==
    [db  |-> [i \in 1..Len(table) |-> [table[i] EXCEPT !.is_active = 0]],
     ret |-> Ok(\E i \in 1..Len(table) : table[i].id = id)]

\* revoke_api_key counting only the rows whose is_active changes
revoke_api_key_changed_rows(table, id) ==
    [db  |-> [i \in 1..Len(table) |->
                IF table[i].id = id THEN [table[i] EXCEPT !.is_active = 0] ELSE table[i]],
     ret |-> Ok(\E i \in 1..Len(table) : table[i].id = id /\ table[i].is_active = 1)]

\* revoke_api_key: UPDATE ... SET is_active = 0 WHERE id = ?; true when a row
\* was updated.  The result is [db, ret].
revoke_api_key(table, id) ==
    [db  |-> [i \in 1..Len(table) |->
                IF table[i].id = id THEN [table[i] EXCEPT !.is_active = 0] ELSE table[i]],
     ret |-> Ok(\E i \in 1..Len(table) : table[i].id = id)]

\* validate_api_key with "is_active = 1" left out of the WHERE clause
validate_api_key_any_row(table, raw_key, t, fail) ==
    IF fail THEN FALSE
    ELSE Cardinality({ i \in 1..Len(table) :
                         /\ table[i].key_hash = hash_api_key(raw_key)
                         /\ (~table[i].expires_at.some
                             \/ TextLess(datetime_now(t), table[i].expires_at.v)) }) > 0

\* validate_api_key: COUNT(*) of the rows with this hash that are active and
\* not expired is positive; false when the query fails
validate_api_key(table, raw_key, t, fail) ==
    IF fail THEN FALSE
    ELSE Cardinality({ i \in 1..Len(table) :
                         /\ table[i].key_hash = hash_api_key(raw_key)
                         /\ table[i].is_active = 1
                         /\ (~table[i].expires_at.some
                             \/ TextLess(datetime_now(t), table[i].expires_at.v)) }) > 0

----------------------------------------------------------------------------
(* src/src/auth/middleware.rs, src/src/auth/handlers.rs, src/src/routes.rs *)

\* state.config.admin_api_key
AdminKey == <<"admin", 0>>

\* require_api_key with the guard of the first arm left out: any present key
\* is let through
require_api_key_unguarded(api_key, valid) ==
    IF api_key.some THEN [next |-> TRUE, resp |-> None]
    ELSE [next |-> FALSE, resp |-> JsonErr(UNAUTHORIZED, Msg("Missing X-API-Key header", <<>>))]

\* require_api_key, with valid the value validate_api_key returned for the
\* presented key: run the next service, or answer 401
require_api_key(api_key, valid) ==
    IF api_key.some /\ valid THEN [next |-> TRUE, resp |-> None]
    ELSE IF api_key.some
    THEN [next |-> FALSE, resp |-> JsonErr(UNAUTHORIZED, Msg("Invalid or expired API key", <<>>))]
    ELSE [next |-> FALSE, resp |-> JsonErr(UNAUTHORIZED, Msg("Missing X-API-Key header", <<>>))]

\* verify_admin_key with the guard of the first arm left out: any present
\* key is taken for the admin key
verify_admin_key_any_key(provided, admin_key) ==
    IF provided.some THEN Ok(TRUE)
    ELSE Err(JsonErr(UNAUTHORIZED, Msg("Missing X-API-Key header", <<>>)))

\* verify_admin_key
verify_admin_key(provided, admin_key) ==
    IF provided.some /\ provided.v = admin_key THEN Ok(TRUE)
    ELSE IF provided.some
    THEN Err(JsonErr(FORBIDDEN, Msg("Invalid admin API key", <<>>)))
    ELSE Err(JsonErr(UNAUTHORIZED, Msg("Missing X-API-Key header", <<>>)))

\* create_router: the handler of each route and whether the route carries
\* the require_api_key layer
create_router ==
    [route \in {"GET /", "GET /health", "GET /api/timezones", "GET /api/time/{timezone}",
                "POST /api/convert", "POST /admin/api-keys", "GET /admin/api-keys",
                "DELETE /admin/api-keys/{id}"} |->
        CASE route \in {"GET /", "GET /health"} ->
                 [handler |-> "health_check", layer |-> FALSE]
          [] route = "GET /api/timezones" ->
                 [handler |-> "get_timezones", layer |-> TRUE]
          [] route = "GET /api/time/{timezone}" ->
                 [handler |-> "get_timezone_info", layer |-> TRUE]
          [] route = "POST /api/convert" ->
                 [handler |-> "convert_timezone", layer |-> TRUE]
          [] route = "POST /admin/api-keys" ->
                 [handler |-> "create_api_key", layer |-> FALSE]
          [] route = "GET /admin/api-keys" ->
                 [handler |-> "list_api_keys", layer |-> FALSE]
          [] OTHER ->
                 [handler |-> "revoke_api_key", layer |-> FALSE]]

Routes == DOMAIN create_router

----------------------------------------------------------------------------
(* Bounds and inputs                                                       *)

\* how often the clock may advance
MaxTicks == 1

\* how many requests the router may hold at once
NumSlots == 1

\* how many raw keys (and ids) Uuid::new_v4 may draw from
NumKeys == 2

\* the clock at start: 2025-03-09T06:59:59Z, one second before New York
\* goes from EST to EDT
StartNow == [d |-> 20156, s |-> 25199]

\* "YYYY-MM-DDTHH:MM"
LitHM(y, mo, d, h, mi) ==
    Pad4(y) \o <<"-">> \o Pad2(mo) \o <<"-">> \o Pad2(d) \o <<"T">> \o Pad2(h) \o <<":">> \o Pad2(mi)

\* "YYYY-MM-DDTHH:MM:SS"
LitHMS(y, mo, d, h, mi, sec) == LitHM(y, mo, d, h, mi) \o <<":">> \o Pad2(sec)

\* zone strings a caller may send
ZoneInputs ==
    { tz_name(tz) : tz \in Tz } \cup {"Invalid/Zone", "utc", "america/new_york", "America", ""}

\* timestamps a caller may send: the test's value, the epoch, the second
\* before it, a summer instant, the last instant chrono can hold and the
\* first it cannot, the first instant chrono can hold and the last before it
TimestampInputs ==
    { Ts(1707580800), Ts(0), Ts(-1), [d |-> 20270, s |-> 43200],
      [d |-> 95026236, s |-> 86399], [d |-> 95026237, s |-> 0],
      [d |-> -96465292, s |-> 0], [d |-> -96465293, s |-> 86399] }

\* datetime literals a caller may send
DatetimeInputs ==
    { LitHMS(2025, 2, 10, 15, 30, 0),        \* the test's value
      LitHM(2025, 2, 10, 15, 30),            \* the same minute, no seconds
      LitHMS(2025, 7, 1, 12, 0, 0),          \* summer
      LitHMS(2025, 3, 9, 2, 30, 0),          \* New York's spring-forward gap
      LitHMS(2025, 11, 2, 1, 30, 0),         \* New York's fall-back overlap
      LitHM(2025, 3, 30, 2, 30),             \* Belgrade's gap
      LitHMS(2025, 10, 26, 2, 30, 0),        \* Belgrade's overlap
      LitHMS(2025, 2, 30, 12, 0, 0),         \* no such date
      <<"2", "0", "2", "5", "-", "0", "2", "-", "1", "0", " ", "1", "5", ":", "3", "0">>,
      LitHMS(2025, 2, 10, 15, 30, 0) \o <<"Z">>,
      <<"2", "0", "2", "5", "-", "2", "-", "1", "0", "T", "1", "5", ":", "3", "0">>,
      <<" ">> \o LitHMS(2025, 7, 1, 12, 0, 0),
      <<"n", "o", "w">> }

FromInputs == {"America/New_York", "Europe/Belgrade", "UTC", "Invalid/Zone", "utc"}

ToInputs == {"America/New_York", "UTC", "Asia/Kolkata", "America/Sao_Paulo", "Invalid/Zone"}

Opt(S) == {None} \cup { Some(x) : x \in S }

ConvertRequests ==
    [timestamp : Opt(TimestampInputs), datetime : Opt(DatetimeInputs),
     from : Opt(FromInputs), to : ToInputs]

\* query strings of the coordinates handler: the four places of the tests,
\* Tokyo with the two numbers exchanged, a latitude beyond the pole, and a
\* query the extractor rejects
CoordinateInputs ==
    { Ok([lat |-> 356762, lng |-> 1396503]), Ok([lat |-> 407128, lng |-> -740060]),
      Ok([lat |-> 515074, lng |-> -1278]), Ok([lat |-> 0, lng |-> -1600000]),
      Ok([lat |-> 1396503, lng |-> 356762]), Ok([lat |-> 950000, lng |-> 100000]),
      Err("Failed to deserialize query string") }

\* the values Uuid::new_v4 may produce: draw i gives the raw key <<"ez_", i>>
\* and the id <<"id", i>>
Draws == 1..NumKeys

RawKeyPool == { <<"ez_", i>> : i \in Draws }

IdPool == { <<"id", i>> : i \in Draws }

\* X-API-Key header values sent to a route: none to the health routes (their
\* handler never reads it); absent, the admin key or a key of the pool to the
\* admin routes; any of these or a key never issued to the API routes
HeaderInputs(route) ==
    IF create_router[route].handler = "health_check" THEN {None}
    ELSE IF create_router[route].layer THEN Opt(RawKeyPool \cup {<<"ez_", 0>>, AdminKey})
    ELSE Opt({<<"ez_", 1>>, AdminKey})

\* expires_at values an admin may send: none, and one second after the start
\* in SQLite's form "YYYY-MM-DD HH:MM:SS" and in the form "YYYY-MM-DDTHH:MM:SS"
\* of the service's own datetime texts
ExpiresInputs ==
    {None, Some(datetime_now(AddSecs(StartNow, 1))),
     Some([datetime_now(AddSecs(StartNow, 1)) EXCEPT ![11] = "T"])}

\* request bodies and path parameters, per route
ArgInputs(route) ==
    CASE route = "GET /api/time/{timezone}" -> {"UTC", "Invalid/Zone"}
      [] route = "POST /api/convert" ->
           { [timestamp |-> Some(Ts(1707580800)), datetime |-> None, from |-> None,
              to |-> "America/New_York"],
             [timestamp |-> None, datetime |-> None, from |-> None, to |-> "UTC"] }
      [] route = "POST /admin/api-keys" ->
           [name : {"test"}, expires_at : ExpiresInputs, json : {"ok"}]
           \cup {[name |-> "", expires_at |-> None, json |-> "syntax error"]}
      [] route = "DELETE /admin/api-keys/{id}" -> IdPool \cup {<<"id", 0>>}
      [] OTHER -> {"-"}

Slots == 1..NumSlots

Idle ==
    [pc |-> "idle", route |-> "", key |-> None, arg |-> None,
     validated |-> "", handler |-> "", resp |-> None]

----------------------------------------------------------------------------
(* The state machine                                                       *)

Init ==
    /\ now = StartNow
    /\ ticks = 0
    /\ call = [op |-> "none", arg |-> None, at |-> now]
    /\ svcRet = None
    /\ httpRet = None
    /\ db = <<>>
    /\ reqs = [r \in Slots |-> Idle]
    /\ prev = None

\* Utc::now()
utc_now == and_utc(now)

\* the system clock advances
Tick ==
    /\ ticks < MaxTicks
    /\ now' = AddSecs(now, 1)
    /\ ticks' = ticks + 1
    /\ UNCHANGED <<prev, call, svcRet, httpRet, db, reqs>>

(* Direct calls of the handlers and of the service functions under them,   *)
(* as the unit tests of service.rs and handlers.rs make them.              *)

CallGetTimezoneInfo ==
    /\ call.op = "none"
    /\ \E name \in ZoneInputs :
          /\ call' = [op |-> "get_timezone_info", arg |-> Some(name), at |-> now]
          /\ svcRet' = Some(get_timezone_info(name, utc_now))
          /\ httpRet' = Some(handlers_get_timezone_info(name, utc_now))
    /\ UNCHANGED <<prev, now, ticks, db, reqs>>

CallGetAllTimezones ==
    /\ call.op = "none"
    /\ call' = [op |-> "get_all_timezones", arg |-> None, at |-> now]
    /\ svcRet' = Some(get_all_timezones)
    /\ httpRet' = Some(handlers_get_timezones)
    /\ UNCHANGED <<prev, now, ticks, db, reqs>>

CallIsValidTimezone ==
    /\ call.op = "none"
    /\ \E name \in ZoneInputs :
          /\ call' = [op |-> "is_valid_timezone", arg |-> Some(name), at |-> now]
          /\ svcRet' = Some(is_valid_timezone(name))
    /\ httpRet' = None
    /\ UNCHANGED <<prev, now, ticks, db, reqs>>

CallConvertTimezone ==
    /\ call.op = "none"
    /\ \E request \in ConvertRequests :
          /\ call' = [op |-> "convert_timezone", arg |-> Some(request), at |-> now]
          /\ svcRet' = Some(convert_timezone(request))
          /\ httpRet' = Some(handlers_convert_timezone(request))
    /\ UNCHANGED <<prev, now, ticks, db, reqs>>

CallGetTimezoneByCoordinates ==
    /\ call.op = "none"
    /\ \E params \in CoordinateInputs :
          /\ call' = [op |-> "get_timezone_by_coordinates", arg |-> Some(params), at |-> now]
          /\ svcRet' = IF params.ok
                       THEN Some(get_timezone_by_coordinates(params.val.lat, params.val.lng, utc_now))
                       ELSE None
          /\ httpRet' = Some(handlers_get_timezone_by_coordinates(params, utc_now))
    /\ UNCHANGED <<prev, now, ticks, db, reqs>>

\* the caller takes the result; the next call can be made
Return ==
    /\ call.op # "none"
    /\ call' = [op |-> "none", arg |-> None, at |-> now]
    /\ svcRet' = None
    /\ httpRet' = None
    /\ UNCHANGED <<prev, now, ticks, db, reqs>>

SvcNext ==
    \/ Tick
    \/ Return
    \/ CallGetTimezoneInfo
    \/ CallGetAllTimezones
    \/ CallIsValidTimezone
    \/ CallConvertTimezone
    \/ CallGetTimezoneByCoordinates

\* the service functions and handlers called directly
SpecSvc == Init /\ [][SvcNext]_vars

(* A caller that makes one call after another and keeps the result of an   *)
(* earlier one.                                                            *)

\* conversion queries made more than once: two timestamps and two literals,
\* one of them in New York's gap, to two targets
RepeatRequests ==
    { [timestamp |-> ts, datetime |-> None, from |-> None, to |-> to] :
        ts \in {Some(Ts(1707580800)), Some(Ts(0))}, to \in {"America/New_York", "UTC"} }
    \cup
    { [timestamp |-> None, datetime |-> dt, from |-> Some("America/New_York"), to |-> to] :
        dt \in {Some(LitHMS(2025, 2, 10, 15, 30, 0)), Some(LitHMS(2025, 3, 9, 2, 30, 0))},
        to \in {"America/New_York", "UTC"} }

CallConvertTimezoneAgain ==
    /\ call.op = "none"
    /\ \E request \in RepeatRequests :
          /\ call' = [op |-> "convert_timezone", arg |-> Some(request), at |-> now]
          /\ svcRet' = Some(convert_timezone(request))
          /\ httpRet' = Some(handlers_convert_timezone(request))
    /\ UNCHANGED <<prev, now, ticks, db, reqs>>

\* the caller takes the result and keeps it, with the call it answers
Remember ==
    /\ call.op # "none"
    /\ prev' = Some([op |-> call.op, arg |-> call.arg, at |-> call.at, ret |-> svcRet])
    /\ call' = [op |-> "none", arg |-> None, at |-> now]
    /\ svcRet' = None
    /\ httpRet' = None
    /\ UNCHANGED <<now, ticks, db, reqs>>

PairNext ==
    \/ Tick
    \/ Return
    \/ Remember
    \/ CallGetTimezoneInfo
    \/ CallConvertTimezoneAgain

\* calls made one after another by a caller that compares their results
SpecPair == Init /\ [][PairNext]_vars

----------------------------------------------------------------------------
(* Requests through the router.  A request is received, passes the         *)
(* require_api_key layer when its route carries it, and is answered by its *)
(* handler; each step is one poll between two awaits.                      *)

\* the request of slot r may enter handler h
AtHandler(r, h) ==
    /\ reqs[r].pc \in {"routed", "next"}
    /\ reqs[r].pc = (IF create_router[reqs[r].route].layer THEN "next" ELSE "routed")
    /\ create_router[reqs[r].route].handler = h

\* the response is written to every request in flight, as from a buffer the
\* requests share
Answer_shared(r, h, resp) ==
    reqs' = [q \in DOMAIN reqs |->
               IF q = r \/ reqs[q].pc \in {"routed", "next"}
               THEN [reqs[q] EXCEPT !.pc = "done", !.handler = h, !.resp = Some(resp)]
               ELSE reqs[q]]

\* slot r is answered by handler h with response resp
Answer(r, h, resp) ==
    reqs' = [reqs EXCEPT ![r].pc = "done", ![r].handler = h, ![r].resp = Some(resp)]

\* a request arrives and is routed
Receive(r) ==
    /\ reqs[r].pc = "idle"
    /\ \E route \in Routes :
          \E key \in HeaderInputs(route), arg \in ArgInputs(route) :
             reqs' = [reqs EXCEPT ![r] = [Idle EXCEPT !.pc = "routed", !.route = route,
                                                      !.key = key, !.arg = Some(arg)]]
    /\ UNCHANGED <<prev, now, ticks, call, svcRet, httpRet, db>>

\* the require_api_key layer; fail is whether the query on the store failed
Middleware(r) ==
    /\ reqs[r].pc = "routed"
    /\ create_router[reqs[r].route].layer
    /\ \E fail \in BOOLEAN :
          LET valid == reqs[r].key.some /\ validate_api_key(db, reqs[r].key.v, now, fail)
              out   == require_api_key(reqs[r].key, valid)
          IN  reqs' = [reqs EXCEPT
                         ![r].validated = IF ~reqs[r].key.some THEN "not called"
                                          ELSE IF valid THEN "true" ELSE "false",
                         ![r].pc   = IF out.next THEN "next" ELSE "done",
                         ![r].resp = IF out.next THEN None ELSE Some(out.resp)]
    /\ UNCHANGED <<prev, now, ticks, call, svcRet, httpRet, db>>

HealthCheck(r) ==
    /\ AtHandler(r, "health_check")
    /\ Answer(r, "health_check", JsonOk([status |-> "healthy", service |-> "timezone-service"]))
    /\ UNCHANGED <<prev, now, ticks, call, svcRet, httpRet, db>>

GetTimezones(r) ==
    /\ AtHandler(r, "get_timezones")
    /\ Answer(r, "get_timezones", handlers_get_timezones)
    /\ UNCHANGED <<prev, now, ticks, call, svcRet, httpRet, db>>

GetTimezoneInfo(r) ==
    /\ AtHandler(r, "get_timezone_info")
    /\ Answer(r, "get_timezone_info", handlers_get_timezone_info(reqs[r].arg.v, utc_now))
    /\ UNCHANGED <<prev, now, ticks, call, svcRet, httpRet, db>>

ConvertTimezone(r) ==
    /\ AtHandler(r, "convert_timezone")
    /\ Answer(r, "convert_timezone", handlers_convert_timezone(reqs[r].arg.v))
    /\ UNCHANGED <<prev, now, ticks, call, svcRet, httpRet, db>>

\* the Json<CreateApiKeyRequest> extractor's answer to a body that is not
\* JSON; the extractors run before the handler's body
JsonRejection ==
    [status |-> BAD_REQUEST, ok |-> FALSE, body |-> [rejection |-> "JsonSyntaxError"]]

\* auth::handlers::create_api_key; the arg of the request is its body as the
\* Json extractor reads it
CreateApiKey(r) ==
    /\ AtHandler(r, "create_api_key")
    /\ LET admin == verify_admin_key(reqs[r].key, AdminKey)
       IN  IF reqs[r].arg.v.json # "ok"
           THEN Answer(r, "", JsonRejection) /\ db' = db
           ELSE IF ~admin.ok
           THEN Answer(r, "create_api_key", admin.err) /\ db' = db
           ELSE \E i \in Draws :
                   LET respond(c) ==
                           /\ db' = c.db
                           /\ Answer(r, "create_api_key",
                                     IF c.ret.ok
                                     THEN [status |-> CREATED, ok |-> TRUE, body |-> c.ret.val]
                                     ELSE JsonErr(INTERNAL_SERVER_ERROR, c.ret.err))
                   IN  respond(create_api_key(db, reqs[r].arg.v.name, reqs[r].arg.v.expires_at,
                                              <<"ez_", i>>, <<"id", i>>, now))
    /\ UNCHANGED <<prev, now, ticks, call, svcRet, httpRet>>

\* auth::handlers::list_api_keys; fail is whether the query on the store
\* failed
ListApiKeys(r) ==
    /\ AtHandler(r, "list_api_keys")
    /\ LET admin == verify_admin_key(reqs[r].key, AdminKey)
       IN  IF ~admin.ok
           THEN Answer(r, "list_api_keys", admin.err)
           ELSE \E fail \in BOOLEAN :
                   Answer(r, "list_api_keys",
                          IF fail
                          THEN JsonErr(INTERNAL_SERVER_ERROR,
                                       Msg("Failed to list API keys: {}", <<"error">>))
                          ELSE JsonOk(list_api_keys(db).val))
    /\ UNCHANGED <<prev, now, ticks, call, svcRet, httpRet, db>>

\* auth::handlers::revoke_api_key; fail is whether the UPDATE on the store
\* failed
RevokeApiKey(r) ==
    /\ AtHandler(r, "revoke_api_key")
    /\ LET admin == verify_admin_key(reqs[r].key, AdminKey)
           rv    == revoke_api_key(db, reqs[r].arg.v)
       IN  IF ~admin.ok
           THEN Answer(r, "revoke_api_key", admin.err) /\ db' = db
           ELSE \E fail \in BOOLEAN :
                   IF fail
                   THEN /\ db' = db
                        /\ Answer(r, "revoke_api_key",
                                  JsonErr(INTERNAL_SERVER_ERROR,
                                          Msg("Failed to revoke API key: {}", <<"error">>)))
                   ELSE /\ db' = rv.db
                        /\ Answer(r, "revoke_api_key",
                                  IF rv.ret.val
                                  THEN [status |-> NO_CONTENT, ok |-> TRUE, body |-> None]
                                  ELSE JsonErr(NOT_FOUND, Msg("API key not found", <<>>)))
    /\ UNCHANGED <<prev, now, ticks, call, svcRet, httpRet>>

\* the response has been sent; the slot is free again
Finish(r) ==
    /\ reqs[r].pc = "done"
    /\ reqs' = [reqs EXCEPT ![r] = Idle]
    /\ UNCHANGED <<prev, now, ticks, call, svcRet, httpRet, db>>

Next ==
    \/ Tick
    \/ \E r \in Slots :
          \/ Receive(r)
          \/ Middleware(r)
          \/ HealthCheck(r)
          \/ GetTimezones(r)
          \/ GetTimezoneInfo(r)
          \/ ConvertTimezone(r)
          \/ CreateApiKey(r)
          \/ ListApiKeys(r)
          \/ RevokeApiKey(r)
          \/ Finish(r)

\* the server
Spec == Init /\ [][Next]_vars

(* The server with several requests in flight at once: tokio polls the      *)
(* request futures in any order, one step of one request at a time.         *)

\* how many requests are in flight at once
NumConcurrent == 2

ConcSlots == 1..NumConcurrent

InitConc ==
    /\ now = StartNow
    /\ ticks = 0
    /\ call = [op |-> "none", arg |-> None, at |-> now]
    /\ svcRet = None
    /\ httpRet = None
    /\ db = <<>>
    /\ reqs = [r \in ConcSlots |-> Idle]
    /\ prev = None

\* the requests sent while others are in flight: header and argument, per
\* route
ConcInputs(route) ==
    CASE route = "GET /api/timezones" -> {[key |-> Some(<<"ez_", 1>>), arg |-> "-"]}
      [] route = "GET /api/time/{timezone}" ->
           {[key |-> Some(<<"ez_", 1>>), arg |-> "America/New_York"]}
      [] route = "POST /api/convert" ->
           {[key |-> Some(<<"ez_", 1>>),
             arg |-> [timestamp |-> Some(Ts(1707580800)), datetime |-> None, from |-> None,
                      to |-> "America/New_York"]]}
      [] route = "POST /admin/api-keys" ->
           {[key |-> Some(AdminKey), arg |-> [name |-> "test", expires_at |-> None, json |-> "ok"]]}
      [] OTHER -> {}

ReceiveConc(r) ==
    /\ reqs[r].pc = "idle"
    /\ \E route \in Routes :
          \E in \in ConcInputs(route) :
             reqs' = [reqs EXCEPT ![r] = [Idle EXCEPT !.pc = "routed", !.route = route,
                                                      !.key = in.key, !.arg = Some(in.arg)]]
    /\ UNCHANGED <<prev, now, ticks, call, svcRet, httpRet, db>>

NextConc ==
    \/ Tick
    \/ \E r \in ConcSlots :
          \/ ReceiveConc(r)
          \/ Middleware(r)
          \/ GetTimezones(r)
          \/ GetTimezoneInfo(r)
          \/ ConvertTimezone(r)
          \/ CreateApiKey(r)
          \/ Finish(r)

SpecConc == InitConc /\ [][NextConc]_vars

----------------------------------------------------------------------------
(* Properties                                                              *)

IsConvert == call.op = "convert_timezone"

\* the argument and the result of the direct call being made
Query == call.arg.v

Result == svcRet.v

\* the readings the call being made has returned
Readings ==
    IF ~svcRet.some THEN {}
    ELSE IF call.op \in {"get_timezone_info", "get_timezone_by_coordinates"}
    THEN (IF Result.ok THEN {Result.val} ELSE {})
    ELSE IF IsConvert
    THEN (IF Result.ok THEN {Result.val.from, Result.val.to} ELSE {})
    ELSE {}

\* the UTC instants whose wall-clock reading in zone tz is the naive time n
InstantsFor(tz, n) ==
    LET sp == TZ_VARIANTS[tz].spans
    IN  { u \in { AddSecs(n, 0 - TotalOffset(sp[i])) : i \in 1..Len(sp) } :
            AddSecs(u, TotalOffset(offset_from_utc_datetime(tz, u))) = n }

\* the query takes the datetime arm with a source zone and a literal that
\* are both accepted
DatetimePath(q) ==
    /\ is_valid_timezone(q.to)
    /\ ~q.timestamp.some /\ q.datetime.some /\ q.from.some
    /\ is_valid_timezone(q.from.v)
    /\ parse_naive(q.datetime.v).ok

\* C1: a successful conversion carries the same timestamp on both sides, on
\* the timestamp path the timestamp that was supplied; a reading for now
\* carries the clock's value at the call.
C1_TimestampUnchanged ==
    /\ (IsConvert /\ Result.ok) =>
          /\ Result.val.from.timestamp = Result.val.to.timestamp
          /\ (Query.timestamp.some => Result.val.to.timestamp = Query.timestamp.v)
    /\ (call.op \in {"get_timezone_info", "get_timezone_by_coordinates"} /\ svcRet.some) =>
          (Result.ok => Result.val.timestamp = call.at)

\* a negative timestamp converted to a zone west of UTC
C1_Witness ==
    /\ IsConvert /\ Result.ok
    /\ Query.timestamp = Some(Ts(-1)) /\ Query.to = "America/Sao_Paulo"

\* C2 as stated: each structural violation has its own error, whatever the
\* target zone is.
C2_Original ==
    IsConvert =>
       /\ (Query.timestamp.some /\ (Query.datetime.some \/ Query.from.some)) =>
             (~Result.ok /\ Result.err.text
                              = "Provide either 'timestamp' or 'datetime'+'from', not both")
       /\ (~Query.timestamp.some /\ ~Query.datetime.some) =>
             (~Result.ok /\ Result.err.text
                              = "Either 'timestamp' or 'datetime'+'from' is required")
       /\ (~Query.timestamp.some /\ Query.datetime.some /\ ~Query.from.some) =>
             (~Result.ok /\ Result.err.text
                              = "'from' timezone is required when using 'datetime'")

\* C2 amended: when the target zone is valid, a timestamp with a datetime
\* and/or a source zone fails with the 'not both' error, neither timestamp
\* nor datetime fails with the 'required' error, a datetime without source
\* zone and timestamp fails with the missing-source-zone error; the three
\* texts differ from each other and from the invalid-source-zone text; when
\* the target zone is invalid, each of these queries fails with the
\* invalid-target error.  No such query succeeds.
C2_StructuralErrors ==
    (IsConvert /\ (Query.timestamp.some \/ ~Query.datetime.some \/ ~Query.from.some)
               /\ (Query.timestamp.some => (Query.datetime.some \/ Query.from.some))) =>
       /\ ~Result.ok
       /\ Result.err.text =
            (IF ~is_valid_timezone(Query.to) THEN "Invalid target timezone: {}"
             ELSE IF Query.timestamp.some
                  THEN "Provide either 'timestamp' or 'datetime'+'from', not both"
             ELSE IF ~Query.datetime.some
                  THEN "Either 'timestamp' or 'datetime'+'from' is required"
             ELSE "'from' timezone is required when using 'datetime'")
       /\ Result.err.text # "Invalid source timezone: {}"
       /\ Cardinality({"Provide either 'timestamp' or 'datetime'+'from', not both",
                       "Either 'timestamp' or 'datetime'+'from' is required",
                       "'from' timezone is required when using 'datetime'",
                       "Invalid source timezone: {}"}) = 4

\* a timestamp sent with a source zone and no datetime, valid target
C2_Witness ==
    /\ IsConvert /\ ~Result.ok
    /\ Query.timestamp.some /\ ~Query.datetime.some /\ Query.from = Some("UTC")
    /\ Query.to = "UTC"
    /\ Result.err.text = "Provide either 'timestamp' or 'datetime'+'from', not both"

\* C3 as stated: a timestamp sent with a datetime yields the conflict error
\* whatever the other fields are.
C3_Original ==
    (IsConvert /\ Query.timestamp.some /\ Query.datetime.some) =>
       (~Result.ok /\ Result.err.text
                        = "Provide either 'timestamp' or 'datetime'+'from', not both")

\* C3 amended: a query with both a timestamp and a datetime is rejected after
\* the target zone is parsed and before the source zone and the literal are:
\* with an invalid target the outcome is the invalid-target error, with a
\* valid target it is the conflict error, whether or not the source zone
\* string and the literal are valid.
C3_ConflictAfterTarget ==
    (IsConvert /\ Query.timestamp.some /\ Query.datetime.some) =>
       /\ ~Result.ok
       /\ (is_valid_timezone(Query.to) <=>
             Result.err.text = "Provide either 'timestamp' or 'datetime'+'from', not both")
       /\ (~is_valid_timezone(Query.to) <=> Result.err.text = "Invalid target timezone: {}")

\* timestamp, unparseable literal and invalid source zone together
C3_Witness ==
    /\ IsConvert /\ Query.timestamp.some
    /\ Query.datetime = Some(<<"n", "o", "w">>) /\ Query.from = Some("Invalid/Zone")
    /\ Query.to = "UTC"
    /\ Result.err.text = "Provide either 'timestamp' or 'datetime'+'from', not both"

\* C4: on the datetime path the conversion succeeds exactly when one instant
\* has the given wall-clock reading in the source zone, and then with that
\* instant; with none (gap) or two (overlap) it fails with the ambiguous-or-
\* invalid error.
C4_ExactlyOneInstant ==
    (IsConvert /\ DatetimePath(Query)) =>
       LET u == InstantsFor(parse_tz(Query.from.v).val, parse_naive(Query.datetime.v).val)
       IN  IF Cardinality(u) = 1
           THEN Result.ok /\ Result.val.from.timestamp \in u
           ELSE /\ ~Result.ok
                /\ Result.err.text = "Ambiguous or invalid local time '{}' in {}"

\* 01:30 on 2025-11-02 in New York, which two instants have
C4_Witness ==
    /\ IsConvert /\ DatetimePath(Query)
    /\ Query.from = Some("America/New_York")
    /\ Query.datetime = Some(LitHMS(2025, 11, 2, 1, 30, 0))
    /\ Cardinality(InstantsFor(parse_tz("America/New_York").val,
                               parse_naive(Query.datetime.v).val)) = 2
    /\ ~Result.ok

\* C5: in a successful conversion the to side names the requested target
\* zone, the from side names UTC on the timestamp path and the declared
\* source zone on the datetime path, and the datetime of each side is the one
\* instant's local reading in the zone that side names.
C5_SidesAndZones ==
    (IsConvert /\ Result.ok) =>
       /\ Result.val.to.timezone = Query.to
       /\ (Query.timestamp.some => Result.val.from.timezone = "UTC")
       /\ (~Query.timestamp.some => Result.val.from.timezone = Query.from.v)
       /\ \A side \in {Result.val.from, Result.val.to} :
             side.datetime = to_rfc3339(with_timezone(and_utc(Result.val.to.timestamp),
                                                      parse_tz(side.timezone).val))

\* the test's conversion from Belgrade to New York
C5_Witness ==
    /\ IsConvert /\ Result.ok
    /\ Query.from = Some("Europe/Belgrade") /\ Query.to = "America/New_York"
    /\ Query.datetime = Some(LitHMS(2025, 2, 10, 15, 30, 0))
    /\ Result.val.from.timezone = "Europe/Belgrade"
    /\ Result.val.from.utc_offset # Result.val.to.utc_offset

\* the string is the name of an item get_all_timezones lists
Listed(str) ==
    \E i \in 1..Len(get_all_timezones) : get_all_timezones[i].name = Chars(str)

\* C6: is_valid_timezone(x) is true exactly for the listed identifiers, and
\* get_timezone_info(x) succeeds exactly for them, failing for every other
\* string with the invalid-zone error that names x.
C6_ExactCatalogMatch ==
    /\ call.op = "is_valid_timezone" => (Result <=> Listed(Query))
    /\ call.op = "get_timezone_info" =>
          /\ Result.ok <=> Listed(Query)
          /\ Result.ok <=> is_valid_timezone(Query)
          /\ ~Result.ok => Result.err = Msg("Invalid timezone: {}", <<Query>>)

\* a catalog name in lower case is not valid
C6_Witness ==
    /\ call.op = "is_valid_timezone" /\ Query = "utc" /\ Result = FALSE
    /\ Listed("UTC")

HandlerFailed == call.op # "none" /\ httpRet.some /\ ~httpRet.v.ok

\* the finder's answer for the coordinates of the call is not in the catalog
FinderOutsideCatalog ==
    /\ call.op = "get_timezone_by_coordinates" /\ Query.ok
    /\ ~Listed(get_tz_name(Query.val.lng, Query.val.lat))

CoreHandlers == {"get_timezones", "get_timezone_info", "convert_timezone"}

\* C9: on the three API routes the handler runs only for a request whose
\* X-API-Key header is present and for which validate_api_key has returned
\* true; a request without the header, or with a key that does not validate,
\* is answered 401 and its handler does not run; without a key only the
\* health routes are answered by their handler (a handler that has run for a
\* request without key has answered 401, or is the health check).
C9_AuthorizedBeforeCore ==
    \A r \in Slots :
       LET q == reqs[r]
       IN  /\ (q.pc = "next" \/ q.handler \in CoreHandlers) =>
                 (q.key.some /\ q.validated = "true")
           /\ (q.pc = "done" /\ q.route # "" /\ create_router[q.route].layer
                 /\ (~q.key.some \/ q.validated = "false")) =>
                 (q.handler = "" /\ q.resp.v.status = UNAUTHORIZED)
           /\ (q.pc = "done" /\ ~q.key.some /\ q.handler # ""
                 /\ q.resp.v.status # UNAUTHORIZED) =>
                 q.handler = "health_check"

\* a revoked or expired key presented to /api/convert
C9_Witness ==
    \E r \in Slots :
       /\ reqs[r].pc = "done" /\ reqs[r].route = "POST /api/convert"
       /\ reqs[r].key = Some(<<"ez_", 1>>) /\ reqs[r].validated = "false"
       /\ reqs[r].resp.v.status = UNAUTHORIZED
       /\ \E i \in 1..Len(db) : db[i].key_hash = hash_api_key(<<"ez_", 1>>)

\* the catalog's abbreviation for the zone and instant of a reading
CatalogAbbreviation(reading) ==
    offset_from_utc_datetime(parse_tz(reading.timezone).val, reading.timestamp).abbr

\* C10: the abbreviation of a reading never begins with '+' or '-': it is
\* the catalog's abbreviation when that is a letter code and "N/A" when the
\* catalog's abbreviation begins with '+' or '-'.
C10_NoNumericAbbreviation ==
    \A reading \in Readings :
       LET cat == CatalogAbbreviation(reading)
       IN  /\ Head(reading.abbreviation) \notin {"+", "-"}
           /\ Head(cat) \in {"+", "-"} => reading.abbreviation = <<"N", "/", "A">>
           /\ Head(cat) \notin {"+", "-"} => reading.abbreviation = cat

\* Dubai, whose abbreviation in the catalog is "+04"
C10_Witness ==
    /\ call.op = "get_timezone_info" /\ Query = "Asia/Dubai" /\ Result.ok
    /\ CatalogAbbreviation(Result.val) = <<"+", "0", "4">>
    /\ Result.val.abbreviation = <<"N", "/", "A">>

\* the catalog's total offset, in seconds, for the zone and instant of a
\* reading
CatalogOffset(reading) ==
    TotalOffset(offset_from_utc_datetime(parse_tz(reading.timezone).val, reading.timestamp))

\* 'UTC', the sign, two hour digits, a colon and two minute digits of a
\* signed offset of m whole minutes
OffsetText(m) ==
    LET a == IF m < 0 THEN 0 - m ELSE m
        h == a \div 60
        r == a % 60
    IN  <<"U", "T", "C", IF m >= 0 THEN "+" ELSE "-",
          Digits[(h \div 10) + 1], Digits[(h % 10) + 1], ":",
          Digits[(r \div 10) + 1], Digits[(r % 10) + 1]>>

CatalogDst(reading) ==
    offset_from_utc_datetime(parse_tz(reading.timezone).val, reading.timestamp).dst_offset

\* C12: the is_dst flag of every reading is true exactly when the DST
\* component of its own zone's offset at the reading's instant is non-zero,
\* so each side of a conversion is determined by the instant and that side's
\* zone alone; a reading for UTC is never flagged.
C12_DstPerZone ==
    \A reading \in Readings :
       /\ reading.is_dst \in BOOLEAN
       /\ reading.is_dst <=> (CatalogDst(reading) # 0)
       /\ reading.timezone = "UTC" => ~reading.is_dst

\* a summer instant read in UTC and in New York: the two sides differ
C12_Witness ==
    /\ IsConvert /\ Result.ok
    /\ Query.timestamp = Some([d |-> 20270, s |-> 43200]) /\ Query.to = "America/New_York"
    /\ Result.val.from.timezone = "UTC"
    /\ ~Result.val.from.is_dst /\ Result.val.to.is_dst

\* the character sequence is four digits, '-', two digits, '-', two digits,
\* 'T', two digits, ':', two digits
IsFormHM(str) ==
    /\ Len(str) = 16
    /\ \A i \in {1, 2, 3, 4, 6, 7, 9, 10, 12, 13, 15, 16} : IsDigit(str[i])
    /\ str[5] = "-" /\ str[8] = "-" /\ str[11] = "T" /\ str[14] = ":"

\* the same followed by ':' and two digits
IsFormHMS(str) ==
    /\ Len(str) = 19
    /\ IsFormHM(SubSeq(str, 1, 16))
    /\ str[17] = ":" /\ IsDigit(str[18]) /\ IsDigit(str[19])

\* the wall-clock part of a reading's RFC 3339 datetime, as text and as a
\* naive value
ClockText(reading) == SubSeq(reading.datetime, 1, 19)

Clock(reading) == parse_from_str(ClockText(reading), FMT_YMD_HMS).val

\* C13: when a conversion on the datetime path succeeds, the from side shows
\* the supplied wall-clock time (with seconds 00 when the literal has none),
\* the instant is that time minus the source zone's offset, and the to side
\* shows the instant plus the target zone's offset.
C13_WallClockInSourceZone ==
    (IsConvert /\ DatetimePath(Query) /\ Result.ok) =>
       LET d     == Query.datetime.v
           n     == parse_naive(d).val
           off_s == CatalogOffset(Result.val.from)
           off_t == CatalogOffset(Result.val.to)
       IN  /\ Clock(Result.val.from) = n
           /\ IsFormHMS(d) => ClockText(Result.val.from) = d
           /\ IsFormHM(d) => ClockText(Result.val.from) = d \o <<":", "0", "0">>
           /\ Result.val.from.timestamp = AddSecs(n, 0 - off_s)
           /\ Result.val.to.timestamp = AddSecs(n, 0 - off_s)
           /\ Clock(Result.val.to) = AddSecs(AddSecs(n, 0 - off_s), off_t)

\* the test's conversion: 15:30 in Belgrade is 09:30 in New York
C13_Witness ==
    /\ IsConvert /\ Result.ok
    /\ Query.datetime = Some(LitHMS(2025, 2, 10, 15, 30, 0))
    /\ Query.from = Some("Europe/Belgrade") /\ Query.to = "America/New_York"
    /\ ClockText(Result.val.to) = LitHMS(2025, 2, 10, 9, 30, 0)

\* the query has a valid target zone, no timestamp, a datetime and a valid
\* source zone: the literal is what decides next
LiteralDecides(q) ==
    /\ is_valid_timezone(q.to)
    /\ ~q.timestamp.some /\ q.datetime.some /\ q.from.some
    /\ is_valid_timezone(q.from.v)

\* the call failed with the malformed-datetime error
Malformed == ~Result.ok /\ Result.err.text = "Invalid datetime '{}': {}"

\* calendar and clock fields; sec = -1 stands for no seconds field
Fields(y, mo, d, h, mi, sec) == [y |-> y, mo |-> mo, d |-> d, h |-> h, mi |-> mi, sec |-> sec]

\* the field values the datetime inputs are written from
FieldTuples ==
    { Fields(2025, 2, 10, 15, 30, 0), Fields(2025, 2, 10, 15, 30, -1),
      Fields(2025, 7, 1, 12, 0, 0), Fields(2025, 3, 9, 2, 30, 0),
      Fields(2025, 11, 2, 1, 30, 0), Fields(2025, 3, 30, 2, 30, -1),
      Fields(2025, 10, 26, 2, 30, 0), Fields(2025, 2, 30, 12, 0, 0) }

\* the fields denote an existing date and a time of day (a seconds field of
\* 60 is taken as a leap second)
ValidFields(f) ==
    /\ f.mo \in 1..12 /\ f.d \in 1..DaysInMonth(f.y, f.mo)
    /\ f.h \in 0..23 /\ f.mi \in 0..59 /\ f.sec \in -1..60

\* the naive value the fields denote, a missing seconds field being zero
NaiveOf(f) ==
    [d |-> days_from_civil(f.y, f.mo, f.d),
     s |-> f.h * 3600 + f.mi * 60 + (IF f.sec < 0 THEN 0 ELSE f.sec)]

\* a two-digit field written in full, without its leading zero, or in full
\* after a space
SpellField(v, how) ==
    CASE how = "pad"   -> Pad2(v)
      [] how = "bare"  -> (IF v < 10 THEN <<Digit(v)>> ELSE Pad2(v))
      [] OTHER         -> <<" ">> \o Pad2(v)

\* the ways of writing fields f as year-month-dayThour:minute[:second], the
\* year in four digits, optionally after a space
Spellings(f) ==
    { (IF o[1] = "space" THEN <<" ">> ELSE <<>>) \o Pad4(f.y) \o <<"-">>
        \o SpellField(f.mo, o[2]) \o <<"-">> \o SpellField(f.d, o[3]) \o <<"T">>
        \o SpellField(f.h, o[4]) \o <<":">> \o SpellField(f.mi, o[5])
        \o (IF f.sec < 0 THEN <<>> ELSE <<":">> \o SpellField(f.sec, o[6])) :
      o \in [1..6 -> {"pad", "bare", "space"}] }

SpellingTable == [f \in FieldTuples |-> Spellings(f)]

\* the valid fields the literal is a spelling of
SpelledBy(d) == { f \in FieldTuples : ValidFields(f) /\ d \in SpellingTable[f] }

\* C14 as stated: a literal in neither of the two padded forms fails with
\* the malformed-datetime error.
C14_Original ==
    (IsConvert /\ LiteralDecides(Query)) =>
       LET d == Query.datetime.v
       IN  ~(IsFormHMS(d) \/ IsFormHM(d)) => Malformed

\* C14 amended: the literal is accepted when it writes year-month-dayT
\* hour:minute, with or without :second, of an existing date and time, each
\* two-digit field in full or without its leading zero and each field
\* optionally after white space; this includes the two padded forms.  It is
\* read as those fields, a missing seconds field as zero, so both forms of
\* one minute give the same reading.  Any other literal fails with the
\* malformed-datetime error naming it, and no result is produced.
C14_AcceptedSpellings ==
    (IsConvert /\ LiteralDecides(Query)) =>
       LET d == Query.datetime.v
       IN  /\ Malformed <=> SpelledBy(d) = {}
           /\ Malformed => Result.err.args[1] = d
           /\ (IsFormHMS(d) \/ IsFormHM(d)) =>
                 (Malformed <=> \A f \in FieldTuples : d \in SpellingTable[f] => ~ValidFields(f))
           /\ Result.ok => \A f \in SpelledBy(d) : Clock(Result.val.from) = NaiveOf(f)

\* February 10th written with a one-digit month
C14_Witness ==
    /\ IsConvert /\ LiteralDecides(Query) /\ Result.ok
    /\ Query.datetime
         = Some(<<"2", "0", "2", "5", "-", "2", "-", "1", "0", "T", "1", "5", ":", "3", "0">>)
    /\ ~IsFormHM(Query.datetime.v)
    /\ ClockText(Result.val.from) = LitHMS(2025, 2, 10, 15, 30, 0)

\* the query has a timestamp and neither a datetime nor a source zone, and
\* its target zone is valid
TimestampPath(q) ==
    /\ is_valid_timezone(q.to)
    /\ q.timestamp.some /\ ~q.datetime.some /\ ~q.from.some

\* the first and the last instant a DateTime<Utc> can hold
MinInstant == [d |-> MIN_DATE_DAYS - UNIX_EPOCH_DAY, s |-> 0]

MaxInstant == [d |-> MAX_DATE_DAYS - UNIX_EPOCH_DAY, s |-> SECS_PER_DAY - 1]

\* C15 as stated: on the timestamp path every timestamp is accepted and
\* comes back unchanged.
C15_Original ==
    (IsConvert /\ TimestampPath(Query)) =>
       /\ Result.ok
       /\ Result.val.from.timestamp = Query.timestamp.v
       /\ Result.val.to.timestamp = Query.timestamp.v

\* C15 amended: on the timestamp path a timestamp between the first and the
\* last instant a DateTime<Utc> can hold is the instant itself: the
\* conversion succeeds and both sides carry it unchanged; a timestamp outside
\* that range is rejected with the invalid-timestamp error naming it, and is
\* not clamped or wrapped into the range.
C15_TimestampInRange ==
    (IsConvert /\ TimestampPath(Query)) =>
       LET ts == Query.timestamp.v
       IN  IF TsLeq(MinInstant, ts) /\ TsLeq(ts, MaxInstant)
           THEN /\ Result.ok
                /\ Result.val.from.timestamp = ts
                /\ Result.val.to.timestamp = ts
           ELSE Result = Err(Msg("Invalid timestamp: {}", <<ts>>))

\* the second after the last instant chrono can hold
C15_Witness ==
    /\ IsConvert /\ TimestampPath(Query)
    /\ Query.timestamp.v = AddSecs(MaxInstant, 1)
    /\ ~Result.ok /\ Result.err.text = "Invalid timestamp: {}"

\* C16: get_all_timezones returns one entry per catalog zone, in the
\* catalog's order, so it is non-empty and the same at every call whatever
\* the clock shows; each entry's display name has the length of its
\* identifier, a space wherever the identifier has an underscore and the
\* identifier's character everywhere else, hence no underscore.
C16_CatalogListing ==
    (call.op = "get_all_timezones") =>
       /\ Len(Result) = Len(TZ_VARIANTS)
       /\ Len(Result) > 0
       /\ \A i \in 1..Len(Result) :
             LET id      == Result[i].name
                 display == Result[i].display_name
             IN  /\ id = Chars(TZ_VARIANTS[i].name)
                 /\ Len(id) > 0
                 /\ Len(display) = Len(id)
                 /\ \A k \in 1..Len(id) :
                       display[k] = (IF id[k] = "_" THEN " " ELSE id[k])
                 /\ \A k \in 1..Len(display) : display[k] # "_"
       /\ \A i, j \in 1..Len(Result) : i # j => Result[i].name # Result[j].name
       /\ httpRet.v.body = Result

\* the list asked for after the clock has advanced, with an identifier of two
\* underscores in it
C16_Witness ==
    /\ call.op = "get_all_timezones" /\ ticks > 0
    /\ \E i \in 1..Len(Result) :
          /\ Result[i].name = Chars("America/Port_of_Spain")
          /\ Cardinality({ k \in 1..Len(Result[i].name) : Result[i].name[k] = "_" }) = 2
          /\ Cardinality({ k \in 1..Len(Result[i].display_name) :
                             Result[i].display_name[k] = " " }) = 2
    /\ \E i \in 1..Len(Result) :
          /\ Result[i].name = Chars("America/New_York")
          /\ Result[i].display_name
               = <<"A", "m", "e", "r", "i", "c", "a", "/", "N", "e", "w", " ", "Y", "o", "r", "k">>

\* the call being made repeats the call the caller has kept
RepeatsKept ==
    /\ prev.some /\ svcRet.some
    /\ call.op = prev.v.op /\ call.arg = prev.v.arg

CoreStep(r) ==
    /\ reqs[r].pc = "next"
    /\ reqs'[r].pc = "done"
    /\ reqs'[r].handler \in CoreHandlers

\* the response a core handler gives to argument arg at clock value t when
\* its request is the only one
AloneResponse(h, arg, t) ==
    CASE h = "get_timezones"     -> handlers_get_timezones
      [] h = "get_timezone_info" -> handlers_get_timezone_info(arg, and_utc(t))
      [] OTHER                   -> handlers_convert_timezone(arg)

PresentedKeys == RawKeyPool \cup {<<"ez_", 0>>}

\* what validate_api_key answers for key k on the table at time t when its
\* query runs
ValidatesIn(table, k, t) == validate_api_key(table, k, t, FALSE)

\* the same, in the current state
Validates(k) == ValidatesIn(db, k, now)

\* the ids under which key k is stored in the table
IdsOf(table, k) ==
    { table[i].id : i \in { j \in 1..Len(table) : table[j].key_hash = hash_api_key(k) } }

\* no row of key k in the table has reached its expires_at at time t
Unexpired(table, k, t) ==
    \A i \in 1..Len(table) :
       table[i].key_hash = hash_api_key(k) =>
          (~table[i].expires_at.some \/ TextLess(datetime_now(t), table[i].expires_at.v))

\* this step is create_api_key returning key k to the admin
IssuedStep(k) ==
    \E r \in DOMAIN reqs :
       /\ reqs[r].pc = "routed" /\ reqs'[r].pc = "done"
       /\ reqs'[r].handler = "create_api_key"
       /\ reqs'[r].resp.v.status = CREATED
       /\ reqs'[r].resp.v.body.api_key = k

\* this step is revoke_api_key returning true for an id of key k
RevokedStep(k) ==
    \E r \in DOMAIN reqs :
       /\ reqs[r].pc = "routed" /\ reqs'[r].pc = "done"
       /\ reqs'[r].handler = "revoke_api_key"
       /\ reqs'[r].resp.v.status = NO_CONTENT
       /\ reqs[r].arg.v \in IdsOf(db, k)

\* this step is the middleware deciding on a request that carries key k
MiddlewareStep(r, k) ==
    /\ reqs[r].pc = "routed" /\ create_router[reqs[r].route].layer
    /\ reqs[r].key = Some(k)
    /\ reqs'[r].pc # "routed"

Revoked(table, k) ==
    \E i \in 1..Len(table) : table[i].key_hash = hash_api_key(k) /\ table[i].is_active = 0

\* C20: when revoke_api_key returns true for the id of a key, the key no
\* longer validates; a revoked key stays revoked and goes on not validating
\* through every later step, the creation and revocation of keys and the
\* advance of the clock included; and the middleware answers every request
\* that carries a revoked key with 401, without running the handler.
C20_RevocationPermanent ==
    [][ \A k \in PresentedKeys :
          /\ RevokedStep(k) => (Revoked(db', k) /\ ~ValidatesIn(db', k, now'))
          /\ Revoked(db, k) => (Revoked(db', k) /\ ~ValidatesIn(db', k, now'))
          /\ \A r \in DOMAIN reqs :
                (MiddlewareStep(r, k) /\ Revoked(db, k)) =>
                   /\ reqs'[r].pc = "done" /\ reqs'[r].handler = ""
                   /\ reqs'[r].validated = "false"
                   /\ reqs'[r].resp.v.status = UNAUTHORIZED
      ]_vars

\* the first key was issued without expiry and revoked, another key is in
\* the store and active, the clock has advanced, and a request carrying the
\* first key has been answered 401
C20_Witness ==
    /\ ticks = MaxTicks
    /\ \E i, j \in 1..Len(db) :
          /\ db[i].key_hash = hash_api_key(<<"ez_", 1>>)
          /\ db[i].is_active = 0 /\ ~db[i].expires_at.some
          /\ db[j].key_hash # db[i].key_hash /\ db[j].is_active = 1
    /\ \E r \in DOMAIN reqs :
          /\ reqs[r].route = "GET /api/timezones" /\ reqs[r].key = Some(<<"ez_", 1>>)
          /\ reqs[r].pc = "done" /\ reqs[r].resp.v.status = UNAUTHORIZED

AdminRoutes == {"POST /admin/api-keys", "GET /admin/api-keys", "DELETE /admin/api-keys/{id}"}

\* this step answers the admin request of slot r
AdminStep(r) ==
    /\ reqs[r].pc = "routed" /\ reqs[r].route \in AdminRoutes
    /\ reqs'[r].pc = "done"

\* the request of slot r is a create request whose body is not JSON
BodyRejected(r) == reqs[r].route = "POST /admin/api-keys" /\ reqs[r].arg.v.json # "ok"

NotALiteral(d) == SpelledBy(d) = {}

\* the query has a datetime and a source zone and no timestamp
DatetimeArm(q) == ~q.timestamp.some /\ q.datetime.some /\ q.from.some

\* C22: a conversion either succeeds with both the from and the to reading
\* or fails with one error and no reading.  On the datetime path the checks
\* are made in the order target zone, source zone, literal, single instant,
\* and the error is that of the first check that fails: an invalid source
\* zone is reported whether or not the literal is well-formed, a malformed
\* literal whether or not the wall-clock time would exist in the source
\* zone, and the gap/overlap error only for a query whose source zone and
\* literal were both accepted.
C22_FirstErrorOnly ==
    IsConvert =>
       /\ IF Result.ok
          THEN DOMAIN Result = {"ok", "val"} /\ DOMAIN Result.val = {"from", "to"}
          ELSE DOMAIN Result = {"ok", "err"} /\ DOMAIN Result.err = {"text", "args"}
       /\ DatetimeArm(Query) =>
             LET text == IF ~is_valid_timezone(Query.to) THEN "Invalid target timezone: {}"
                         ELSE IF ~is_valid_timezone(Query.from.v)
                              THEN "Invalid source timezone: {}"
                         ELSE IF NotALiteral(Query.datetime.v) THEN "Invalid datetime '{}': {}"
                         ELSE "Ambiguous or invalid local time '{}' in {}"
             IN  /\ ~Result.ok => Result.err.text = text
                 /\ (~is_valid_timezone(Query.to) \/ ~is_valid_timezone(Query.from.v)
                       \/ NotALiteral(Query.datetime.v)) => ~Result.ok
                 /\ (~Result.ok /\ Result.err.text = "Ambiguous or invalid local time '{}' in {}")
                       => (is_valid_timezone(Query.from.v) /\ ~NotALiteral(Query.datetime.v))

\* an invalid source zone sent with a malformed literal, and a malformed
\* literal with a valid source zone
C22_Witness ==
    /\ IsConvert /\ DatetimeArm(Query) /\ Query.to = "UTC"
    /\ Query.from = Some("Invalid/Zone") /\ Query.datetime = Some(<<"n", "o", "w">>)
    /\ ~Result.ok /\ Result.err.text = "Invalid source timezone: {}"

\* a TimezoneInfo with its fields under the names of ConvertTimezoneInfo
AsConvertInfo(info) ==
    [timezone     |-> info.timezone,
     datetime     |-> info.current_time,
     utc_offset   |-> info.utc_offset,
     abbreviation |-> info.abbreviation,
     is_dst       |-> info.is_dst,
     timestamp    |-> info.timestamp]

\* the reading get_timezone_info builds for zone string z when the clock
\* shows the instant of timestamp t
InfoAt(z, t) == get_timezone_info(z, and_utc(t))

\* C23: for a valid zone string and an instant of whole seconds, the reading
\* get_timezone_info builds and the reading build_convert_info builds are
\* equal field by field, current_time against datetime, the zone string
\* echoed by the one being the name of the parsed zone given by the other:
\* every reading a conversion returns is the one get_timezone_info builds
\* for that zone at that instant, and every reading get_timezone_info
\* returns is the one build_convert_info builds.
C23_RenderingsAgree ==
    /\ (IsConvert /\ Result.ok) =>
          /\ InfoAt(Query.to, Result.val.to.timestamp).ok
          /\ Result.val.to = AsConvertInfo(InfoAt(Query.to, Result.val.to.timestamp).val)
          /\ Result.val.from
                = AsConvertInfo(InfoAt(IF Query.from.some THEN Query.from.v ELSE "UTC",
                                       Result.val.from.timestamp).val)
    /\ (call.op = "get_timezone_info" /\ svcRet.some /\ Result.ok) =>
          AsConvertInfo(Result.val)
            = build_convert_info(and_utc(call.at), parse_tz(call.arg.v).val)

\* a summer wall-clock time in Belgrade converted to Kolkata
C23_Witness ==
    /\ IsConvert /\ Result.ok
    /\ Query.from = Some("Europe/Belgrade") /\ Query.to = "Asia/Kolkata"
    /\ Result.val.from.timezone = "Europe/Belgrade" /\ Result.val.from.is_dst
    /\ Result.val.to = AsConvertInfo(InfoAt("Asia/Kolkata", Result.val.to.timestamp).val)

\* this step answers the revoke request of slot r, sent with the admin key
\* for id, and the UPDATE has not failed
RevokeAnswered(r, id) ==
    /\ reqs[r].pc = "routed" /\ reqs[r].route = "DELETE /admin/api-keys/{id}"
    /\ reqs[r].key = Some(AdminKey) /\ reqs[r].arg = Some(id)
    /\ reqs'[r].pc = "done"
    /\ reqs'[r].resp.v.status # INTERNAL_SERVER_ERROR

\* C24: a revoke request for an id that has a record is answered 204,
\* whether the record is active or was revoked before, and changes nothing
\* but the active flag of that record, which becomes 0; a revoke request for
\* an id without record is answered 404 and leaves the store as it was, and
\* with it the answer of validate_api_key for every key.
C24_RevokeFrame ==
    [][ \A r \in DOMAIN reqs : \A id \in IdPool \cup {<<"id", 0>>} : RevokeAnswered(r, id) =>
          IF id \in RowIds(db)
          THEN /\ reqs'[r].resp.v.status = NO_CONTENT
               /\ Len(db') = Len(db)
               /\ \A i \in 1..Len(db) :
                     db'[i] = IF db[i].id = id THEN [db[i] EXCEPT !.is_active = 0] ELSE db[i]
               /\ \A k \in PresentedKeys :
                     (id \notin IdsOf(db, k)) =>
                        ValidatesIn(db', k, now') = ValidatesIn(db, k, now)
          ELSE /\ reqs'[r].resp.v.status = NOT_FOUND
               /\ db' = db
               /\ \A k \in PresentedKeys : ValidatesIn(db', k, now') = ValidatesIn(db, k, now)
      ]_vars

\* the first of two keys has been revoked with the answer 204, the other is
\* still active
C24_Witness ==
    /\ Len(db) = 2
    /\ \E i, j \in 1..2 :
          /\ db[i].id = <<"id", 1>> /\ db[i].is_active = 0
          /\ db[j].id = <<"id", 2>> /\ db[j].is_active = 1
    /\ \E r \in DOMAIN reqs :
          /\ reqs[r].pc = "done" /\ reqs[r].route = "DELETE /admin/api-keys/{id}"
          /\ reqs[r].arg = Some(<<"id", 1>>)
          /\ reqs[r].resp.v.status = NO_CONTENT

\* the time the expires_at text e denotes has been reached at time t; e is
\* year-month-day and time of day in UTC, separated by a space or by T
ExpiryReached(e, t) == ~TextLess(datetime_now(t), [e EXCEPT ![11] = " "])

\* the table holds a record of key k that is active and whose expiry is
\* absent or later than time t
LiveRecord(table, k, t) ==
    \E i \in 1..Len(table) :
       /\ table[i].key_hash = hash_api_key(k)
       /\ table[i].is_active = 1
       /\ (table[i].expires_at.some => ~ExpiryReached(table[i].expires_at.v, t))

\* the table holds a record of key k whose expiry has been reached at time t
Expired(table, k, t) ==
    \E i \in 1..Len(table) :
       /\ table[i].key_hash = hash_api_key(k)
       /\ table[i].expires_at.some /\ ExpiryReached(table[i].expires_at.v, t)

\* C25: validate_api_key answers true only for a key with a record in the
\* store that is active and whose expiry is absent or strictly later than
\* the current time; a key whose expiry has been reached does not validate
\* in any later state; and the middleware lets a request pass only when
\* validate_api_key has answered true for such a key, so never when the
\* query has failed.
C25_FailsClosed ==
    [][ \A k \in PresentedKeys :
          /\ ValidatesIn(db, k, now) => LiveRecord(db, k, now)
          /\ Expired(db, k, now) => (Expired(db', k, now') /\ ~ValidatesIn(db', k, now'))
          /\ ~validate_api_key(db, k, now, TRUE)
          /\ \A r \in DOMAIN reqs :
                MiddlewareStep(r, k) =>
                   /\ reqs'[r].validated = "true" => LiveRecord(db, k, now)
                   /\ reqs'[r].pc = "next" <=> reqs'[r].validated = "true"
                   /\ reqs'[r].validated # "true" => reqs'[r].resp.v.status = UNAUTHORIZED
      ]_vars

====
